---- MODULE Spec2Model ----
(***************************************************************************)
(* A model of CGRtools: the dual-state graph container (containers/cgr.py), *)
(* the ring finder (algorithms/sssr.py) and the template searcher          *)
(* (reactor.py).  Each part has its own specification over the shared      *)
(* variables; the parts that a specification does not run stay idle.       *)
(***************************************************************************)
EXTENDS Integers, Sequences, FiniteSets, TLC

VARIABLES
    nodes,      \* CGRContainer: atom identifier -> attribute record
    edges,      \* CGRContainer: {atom1, atom2} -> bond attribute record
    added,      \* history: number of add_atom calls that returned
    outcome     \* what the last call did: exception, message, return value

containerVars == <<nodes, edges, added, outcome>>

VARIABLES
    g,          \* find_sssr: the graph it is called with
    tie,        \* find_sssr: how equally long paths of a pair are ordered
    sssr_pc,    \* find_sssr: "idle", "start", "paths", "rings", "done", "raised"
    pid1,       \* find_sssr: pair -> its shortest paths
    pid2,       \* find_sssr: pair -> its paths one longer than the shortest
    sssr        \* find_sssr: the value returned

sssrVars == <<g, tie, sssr_pc, pid1, pid2, sssr>>

\* the searcher of CGRreactor.get_template_searcher: its reactor's
\* configuration, its arguments, its position and locals, the Match it
\* yielded last, and a record of everything it yielded
VARIABLES
    config,
    templates,
    target,
    skip_intersection,
    search_pc,
    ti,
    pending,
    found,
    match,
    yielded,
    nyield

searchVars ==
    <<config, templates, target, skip_intersection, search_pc, ti, pending,
      found, match, yielded, nyield>>

\* one call of CGRreactor.__list_eq
VARIABLES cmp_a, cmp_b, cmp_pc, cmp_ret

cmpVars == <<cmp_a, cmp_b, cmp_pc, cmp_ret>>

\* one call of CGRreactor.patcher: its arguments, its position, the
\* exception it raised and the graph it returned
VARIABLES pt_structure, pt_patch, pt_pc, pt_exc, pt_out

patchVars == <<pt_structure, pt_patch, pt_pc, pt_exc, pt_out>>

\* clone_subgraphs: the graph it is called with and that graph as it was
\* at the call, the place in the code, the exception raised, the results of
\* __split_graph, the groups, the working graph with the clones, and the
\* graph returned
VARIABLES cl_g, cl_g0, cl_pc, cl_exc, cl_split, cl_groups, cl_work, cl_ret

cloneVars == <<cl_g, cl_g0, cl_pc, cl_exc, cl_split, cl_groups, cl_work, cl_ret>>

\* prepare_templates: the raw templates, the place in the loop, the
\* templates built so far, the exception raised, the list returned
VARIABLES pr_raw, pr_i, pr_templates, pr_exc, pr_ret, pr_pc

prepareVars == <<pr_raw, pr_i, pr_templates, pr_exc, pr_ret, pr_pc>>

VARIABLES mk_nodes, mk_adj, mk_bonds, mk_labels, mk_out

marksVars == <<mk_nodes, mk_adj, mk_bonds, mk_labels, mk_out>>

VARIABLES st_centre, st_nb, st_stereo, st_out

stereoVars == <<st_centre, st_nb, st_stereo, st_out>>

VARIABLES rd_file, rd_n, rd, rd_pc

sdfVars == <<rd_file, rd_n, rd, rd_pc>>

VARIABLES wr_out, wr_write, wr_finalized, wr_closed

mrvVars == <<wr_out, wr_write, wr_finalized, wr_closed>>

vars == <<containerVars, sssrVars, searchVars, cmpVars, patchVars, cloneVars, prepareVars, marksVars, stereoVars, sdfVars, mrvVars>>

(***************************************************************************)
(* Python values.  An attribute value is None, a scalar or a list; the     *)
(* payload is always a sequence so that values of one attribute compare.   *)
(***************************************************************************)
None == [tag |-> "None", v |-> <<>>]

Scalar(x) == [tag |-> "Val", v |-> <<x>>]

List(s) == [tag |-> "List", v |-> s]

\* Python truthiness of None or an integer: `if s_mark:`
Truthy(x) == x.tag = "Val" /\ x.v[1] # 0

Range(s) == {s[i] : i \in DOMAIN s}

Max0(S) == IF S = {} THEN 0 ELSE CHOOSE x \in S : \A y \in S : y <= x

(***************************************************************************)
(* Bounds of the container model.                                          *)
(***************************************************************************)
MaxAtoms == 2

(***************************************************************************)
(* Static data the container is checked against.                           *)
(***************************************************************************)
\* the periodic table (the symbols this model uses)
elements == {"H", "C", "N", "O"}

\* radical mark -> number of unpaired electrons
radical_map(r) ==
    IF r = None THEN 0 ELSE IF r.v[1] = 2 THEN 1 ELSE 2

\* is the (charge, radical) pair realizable for the element:
\* hydrogen has one electron to lose or to leave unpaired, the others
\* of this table at most two of each
check_charge_radical(element, charge, radical) ==
    IF element = "H"
    THEN charge \in {-1, 0, 1} /\ radical <= 1 /\ (charge = 0 \/ radical = 0)
    ELSE charge \in -2..2 /\ radical <= 2

\* the valence an element may use on one side
valence_limit(element) ==
    IF element = "H" THEN 1
    ELSE IF element = "C" THEN 4
    ELSE IF element = "N" THEN 3
    ELSE 2

\* what a bond mark counts for in the valence sum (aromatic and any: one)
bond_order(mark) == IF mark \in {1, 2, 3} THEN mark ELSE 1

\* the bonds of atom n on one side (label "s_bond" or "p_bond")
SideBonds(E, n, label) ==
    {e \in DOMAIN E : n \in e /\ Truthy(E[e][label])}

RECURSIVE SumOrders(_, _, _)
SumOrders(E, S, label) ==
    IF S = {} THEN 0
    ELSE LET e == CHOOSE x \in S : TRUE
         IN bond_order(E[e][label].v[1]) + SumOrders(E, S \ {e}, label)

\* _check_bonding: TRUE when the new bond fits the valence of both atoms
check_bonding(N, E, atom1, atom2, mark, label) ==
    \A n \in {atom1, atom2} :
        SumOrders(E, SideBonds(E, n, label), label) + bond_order(mark)
            <= valence_limit(N[n].element)

(***************************************************************************)
(* Calls and their outcomes.                                               *)
(***************************************************************************)
Returned(r) == [exc |-> "none", msg |-> "", ret |-> r]

Raised(e, m) == [exc |-> e, msg |-> m, ret |-> None]

AtomCall(element, s_charge, p_charge, s_radical, p_radical, s_xyz, p_xyz) ==
    [element |-> element, s_charge |-> s_charge, p_charge |-> p_charge,
     s_radical |-> s_radical, p_radical |-> p_radical, mark |-> "0",
     s_x |-> s_xyz[1], s_y |-> s_xyz[2], s_z |-> s_xyz[3],
     p_x |-> p_xyz[1], p_y |-> p_xyz[2], p_z |-> p_xyz[3]]

NoXYZ == <<None, None, None>>

\* the argument lists add_atom is called with (each also with every _map)
AtomArgs ==
    { AtomCall("C", 0, None, None, None, <<0, 0, 0>>, NoXYZ),
      AtomCall("H", 0, None, None, None, <<0, 0, 0>>, NoXYZ),
      AtomCall("C", 1, Scalar(0), Scalar(2), None, <<1, 2, 3>>,
               <<Scalar(4), None, Scalar(0)>>),
      AtomCall("Xx", 0, None, None, None, <<0, 0, 0>>, NoXYZ),
      AtomCall("C", 0, None, Scalar(4), None, <<0, 0, 0>>, NoXYZ),
      AtomCall("C", 0, None, None, Scalar(0), <<0, 0, 0>>, NoXYZ),
      AtomCall("H", 1, None, Scalar(2), None, <<0, 0, 0>>, NoXYZ) }

\* _map: omitted, a non-positive number, a positive number
MapArgs == {None, Scalar(0), Scalar(1)}

\* s_mark, p_mark: absent, a bond order, a number that is no bond order
MarkArgs == {None, Scalar(1), Scalar(5)}

\* an atom identifier no add_atom call of the model gives
MissingAtom == 0 - 1

(***************************************************************************)
(* CGRContainer.add_atom                                                   *)
(***************************************************************************)
\* the identifier the call uses: max(self, default=0) + 1 when omitted
add_atom_map(N, map) ==
    IF map = None THEN Max0(DOMAIN N) + 1 ELSE map.v[1]

\* every omitted product coordinate takes the reagent's x
add_atom_defaults_bad(a) ==
    [a EXCEPT !.p_charge = IF a.p_charge = None THEN a.s_charge
                           ELSE a.p_charge.v[1],
              !.p_x = IF a.p_x = None THEN a.s_x ELSE a.p_x.v[1],
              !.p_y = IF a.p_y = None THEN a.s_x ELSE a.p_y.v[1],
              !.p_z = IF a.p_z = None THEN a.s_x ELSE a.p_z.v[1]]

\* the product-side values after the defaults are applied
add_atom_defaults(a) ==
    [a EXCEPT !.p_charge = IF a.p_charge = None THEN a.s_charge
                           ELSE a.p_charge.v[1],
              !.p_x = IF a.p_x = None THEN a.s_x ELSE a.p_x.v[1],
              !.p_y = IF a.p_y = None THEN a.s_y ELSE a.p_y.v[1],
              !.p_z = IF a.p_z = None THEN a.s_z ELSE a.p_z.v[1]]

\* the message of the InvalidData the call raises, "" when it raises none
add_atom_error(N, a, map) ==
    IF a.element \notin elements THEN "element not exists"
    ELSE IF map # None /\ map.v[1] \in DOMAIN N THEN "mapping exists"
    ELSE IF \E r \in {a.s_radical, a.p_radical} :
                r # None /\ r.v[1] \notin {1, 2, 3}
    THEN "only monovalent (2), bivalent (1 singlet, 3 triplet) or None accepted"
    ELSE IF ~(check_charge_radical(a.element, a.s_charge,
                                   radical_map(a.s_radical))
              /\ check_charge_radical(a.element, add_atom_defaults(a).p_charge,
                                      radical_map(a.p_radical)))
    THEN "charge and/or radical values impossible for this element"
    ELSE ""

\* networkx add_node: a new node gets the attributes, a node that exists has
\* the given keys overwritten and keeps its other keys (here the radicals)
add_node(N, n, attr) ==
    [x \in DOMAIN N \cup {n} |->
        IF x # n THEN N[x]
        ELSE IF n \in DOMAIN N
             THEN [attr EXCEPT !.s_radical = N[n].s_radical,
                               !.p_radical = N[n].p_radical]
             ELSE attr]

\* the node attributes add_atom stores (lines 91-97)
add_atom_node(N, a, n) ==
    LET d == add_atom_defaults(a)
        base == add_node(N, n, [d EXCEPT !.s_radical = None,
                                         !.p_radical = None])
        s_rad == IF Truthy(a.s_radical) THEN a.s_radical ELSE base[n].s_radical
        p_rad == IF Truthy(a.p_radical) THEN a.p_radical ELSE base[n].p_radical
    IN [base EXCEPT ![n] = [base[n] EXCEPT !.s_radical = s_rad,
                                           !.p_radical = p_rad]]

\* the node is stored before the charges and radicals are looked at
atoms_at_raise_bad(N, a, map) ==
    IF add_atom_error(N, a, map)
           = "charge and/or radical values impossible for this element"
    THEN add_atom_node(N, a, add_atom_map(N, map))
    ELSE N

\* lines 69-89: the atoms when add_atom raises; every raise comes before
\* add_node (line 91)
atoms_at_raise(N, a, map) == N

add_atom(a, map) ==
    LET err == add_atom_error(nodes, a, map)
        n == add_atom_map(nodes, map)
    IN IF err # ""
       THEN /\ outcome' = Raised("InvalidData", err)
            /\ nodes' = atoms_at_raise(nodes, a, map)
            /\ UNCHANGED <<edges, added>>
       ELSE /\ nodes' = add_atom_node(nodes, a, n)
            /\ added' = added + 1
            /\ outcome' = Returned(Scalar(n))
            /\ UNCHANGED edges

(***************************************************************************)
(* CGRContainer.add_bond                                                   *)
(***************************************************************************)
ValidMark(m) == m = None \/ (m.tag = "Val" /\ m.v[1] \in {1, 2, 3, 4, 9})

\* add_bond without the check of line 107
add_bond_error_no_empty(N, E, atom1, atom2, s_mark, p_mark, ignore) ==
    IF atom1 \notin DOMAIN N \/ atom2 \notin DOMAIN N THEN "atoms not found"
    ELSE IF {atom1, atom2} \in DOMAIN E THEN "bond exists"
    ELSE IF ~ValidMark(s_mark) \/ ~ValidMark(p_mark) THEN "invalid bond mark"
    ELSE ""

\* the message of the InvalidData the call raises, "" when it raises none
add_bond_error(N, E, atom1, atom2, s_mark, p_mark, ignore) ==
    IF atom1 \notin DOMAIN N \/ atom2 \notin DOMAIN N THEN "atoms not found"
    ELSE IF {atom1, atom2} \in DOMAIN E THEN "bond exists"
    ELSE IF ~(Truthy(s_mark) \/ Truthy(p_mark)) THEN "empty bonds not allowed"
    ELSE IF ~ValidMark(s_mark) THEN "invalid bond mark"
    ELSE IF ~ignore /\ Truthy(s_mark)
            /\ ~check_bonding(N, E, atom1, atom2, s_mark.v[1], "s_bond")
    THEN "valence"
    ELSE IF ~ValidMark(p_mark) THEN "invalid bond mark"
    ELSE IF ~ignore /\ Truthy(p_mark)
            /\ ~check_bonding(N, E, atom1, atom2, p_mark.v[1], "p_bond")
    THEN "valence"
    ELSE ""

\* networkx add_edge: the given keys are set on the (new or old) edge
add_edge(E, atom1, atom2, key, value) ==
    LET e == {atom1, atom2}
        old == IF e \in DOMAIN E THEN E[e]
               ELSE [s_bond |-> None, p_bond |-> None]
    IN [x \in DOMAIN E \cup {e} |->
            IF x = e THEN [old EXCEPT ![key] = value] ELSE E[x]]

\* the edges after lines 120-123
add_bond_edges(E, atom1, atom2, s_mark, p_mark) ==
    LET E1 == IF Truthy(s_mark)
              THEN add_edge(E, atom1, atom2, "s_bond", s_mark) ELSE E
    IN IF Truthy(p_mark)
       THEN add_edge(E1, atom1, atom2, "p_bond", p_mark) ELSE E1

\* lines 103-118: the bonds when add_bond raises; every raise comes before
\* the first add_edge (line 120)
bonds_at_raise(E, atom1, atom2, s_mark, p_mark) == E

add_bond(atom1, atom2, s_mark, p_mark, ignore) ==
    LET err == add_bond_error(nodes, edges, atom1, atom2, s_mark, p_mark,
                              ignore)
    IN IF err # ""
       THEN /\ outcome' = Raised("InvalidData", err)
            /\ edges' = bonds_at_raise(edges, atom1, atom2, s_mark, p_mark)
            /\ UNCHANGED <<nodes, added>>
       ELSE /\ edges' = add_bond_edges(edges, atom1, atom2, s_mark, p_mark)
            /\ outcome' = Returned(None)
            /\ UNCHANGED <<nodes, added>>

(***************************************************************************)
(* CGRreactor (reactor.py): the comparators and the template searcher.     *)
(***************************************************************************)
\* bounds of the searcher's inputs
MaxTargetAtoms == 3

MaxTemplates == 2

\* the wildcard test is made on the target's value
list_eq_bad(a, b) ==
    IF a = None THEN TRUE
    ELSE IF b.tag = "List" THEN a.tag = "Val" /\ a.v[1] \in Range(b.v)
    ELSE a = b

\* __list_eq: a is the target's value, b the pattern's
list_eq(a, b) ==
    IF b = None THEN TRUE
    ELSE IF b.tag = "List" THEN a.tag = "Val" /\ a.v[1] \in Range(b.v)
    ELSE a = b

\* the attributes of a node and of an edge (an absent key is None, which
\* is what data.get(attr, None) gives)
NodeAttrs ==
    {"element", "isotope", "s_charge", "sp_charge", "s_neighbors",
     "sp_neighbors", "s_hyb", "sp_hyb", "s_stereo", "sp_stereo"}

EdgeAttrs == {"s_bond", "sp_bond"}

\* __init__, lines 42-56: the attributes compared on a CGRContainer target
gnm_sp(c) ==
    (IF c.isotope THEN <<"isotope">> ELSE <<>>)
    \o (IF c.element THEN <<"sp_charge", "element">> ELSE <<>>)
    \o (IF c.extralabels THEN <<"sp_neighbors", "sp_hyb">> ELSE <<>>)
    \o (IF c.stereo THEN <<"sp_stereo">> ELSE <<>>)

\* __init__, lines 42-56: the attributes compared on a single-state target
gnm_s(c) ==
    (IF c.isotope THEN <<"isotope">> ELSE <<>>)
    \o (IF c.element THEN <<"s_charge", "element">> ELSE <<>>)
    \o (IF c.extralabels THEN <<"s_neighbors", "s_hyb">> ELSE <<>>)
    \o (IF c.stereo THEN <<"s_stereo">> ELSE <<>>)

\* networkx generic_node_match(attrs, [None] * n, [__list_eq] * n), also
\* used for the edges: data1 is of the target, data2 of the pattern
generic_node_match(attrs, data1, data2) ==
    \A i \in 1..Len(attrs) : list_eq(data1[attrs[i]], data2[attrs[i]])

\* get_cgr_matcher: the comparators by the type of the target
node_match(c, G, data1, data2) ==
    generic_node_match(IF G.cgr THEN gnm_sp(c) ELSE gnm_s(c), data1, data2)

edge_match(G, data1, data2) ==
    generic_node_match(IF G.cgr THEN <<"sp_bond">> ELSE <<"s_bond">>,
                       data1, data2)

Inverse(f) == [y \in Range(f) |-> CHOOSE x \in DOMAIN f : f[x] = y]

\* GraphMatcher(g, pattern).subgraph_isomorphisms_iter(): every mapping,
\* node of g -> node of the pattern, of a node-induced subgraph of g onto
\* the pattern that the comparators accept
subgraph_isomorphisms(c, G1, G2) ==
    {Inverse(f) :
     f \in {h \in [DOMAIN G2.nodes -> DOMAIN G1.nodes] :
        /\ \A u, v \in DOMAIN h : u # v => h[u] # h[v]
        /\ \A u \in DOMAIN h : node_match(c, G1, G1.nodes[h[u]], G2.nodes[u])
        /\ \A u, v \in DOMAIN h :
              u # v => ({u, v} \in DOMAIN G2.edges
                        <=> {h[u], h[v]} \in DOMAIN G1.edges)
        /\ \A u, v \in DOMAIN h :
              {u, v} \in DOMAIN G2.edges =>
                  edge_match(G1, G1.edges[{h[u], h[v]}], G2.edges[{u, v}])}}

\* range(1, 1000), line 227
RemapLimit == 1000

\* the k smallest numbers of range(1, 1000) that are no node of h
RECURSIVE FreeIds(_, _, _)
FreeIds(H, k, from) ==
    IF k = 0 \/ from >= RemapLimit THEN {}
    ELSE IF from \in DOMAIN H.nodes THEN FreeIds(H, k, from + 1)
    ELSE {from} \cup FreeIds(H, k - 1, from + 1)

\* the maps __remap_group may build (line 227): the given mapping, and the
\* nodes of g it lacks paired with the free numbers; the order in which
\* the set of those nodes is gone through is not fixed
newmaps(G, H, mapping) ==
    LET rest == DOMAIN G.nodes \ DOMAIN mapping
        free == FreeIds(H, Cardinality(rest), 1)
    IN {[x \in DOMAIN mapping \cup DOMAIN z |->
            IF x \in DOMAIN mapping THEN mapping[x] ELSE z[x]] :
        z \in UNION {{f \in [R -> free] : Range(f) = free} :
                     R \in {Q \in SUBSET rest :
                            Cardinality(Q) = Cardinality(free)}}}

\* g.remap(newmap, copy=True): a copy of g with node x renamed newmap[x]
remap(G, newmap) ==
    LET to(x) == IF x \in DOMAIN newmap THEN newmap[x] ELSE x
        from(y) == CHOOSE x \in DOMAIN G.nodes : to(x) = y
    IN [cgr |-> G.cgr,
        nodes |-> [y \in {to(x) : x \in DOMAIN G.nodes} |-> G.nodes[from(y)]],
        edges |-> [e \in {{to(x) : x \in d} : d \in DOMAIN G.edges} |->
                      G.edges[{from(y) : y \in e}]]]

\* the patch is remapped with the mapping itself, not with its inverse
match_patches_bad(G, template, j) ==
    {remap(template.patch, m) : m \in newmaps(template.patch, G, j)}

\* line 107: __remap_group(i.patch, g, {y: x for x, y in j.items()})[0]
match_patches(G, template, j) ==
    {remap(template.patch, m) : m \in newmaps(template.patch, G, Inverse(j))}

MatchContainer(mapping, patch, meta) ==
    [mapping |-> mapping, patch |-> patch, meta |-> meta]


\* prepare_templates, lines 275-276: the atoms of a template are numbered
\* from 1000 up
TemplateOffset == 1000

Atom(element, charge) ==
    [k \in NodeAttrs |->
        CASE k = "element" -> element
          [] k \in {"s_charge", "sp_charge"} -> charge
          [] OTHER -> None]

Bond(order) == [s_bond |-> order, sp_bond |-> order]

Graph(cgr, N, E) == [cgr |-> cgr, nodes |-> N, edges |-> E]

CGRTemplate(pattern, patch, meta) ==
    [pattern |-> pattern, patch |-> patch, meta |-> meta]

TemplateAtom(n) == TemplateOffset + n

\* one carbon; the patch recharges it
OneAtom ==
    CGRTemplate(
        Graph(TRUE, (TemplateAtom(1) :> Atom(Scalar("C"), Scalar(0))), <<>>),
        Graph(TRUE, (TemplateAtom(1) :> Atom(Scalar("C"), Scalar(1))), <<>>),
        "one")

\* a carbon or a nitrogen bound to a nitrogen; the patch adds an oxygen
TwoAtoms ==
    CGRTemplate(
        Graph(TRUE,
              (TemplateAtom(1) :> Atom(List(<<"C", "N">>), None))
                  @@ (TemplateAtom(2) :> Atom(Scalar("N"), Scalar(0))),
              ({TemplateAtom(1), TemplateAtom(2)} :> Bond(Scalar(1)))),
        Graph(TRUE,
              (TemplateAtom(1) :> Atom(None, Scalar(1)))
                  @@ (TemplateAtom(2) :> Atom(Scalar("N"), Scalar(0)))
                  @@ (TemplateAtom(3) :> Atom(Scalar("O"), Scalar(0))),
              ({TemplateAtom(1), TemplateAtom(2)} :> Bond(Scalar(2)))
                  @@ ({TemplateAtom(2), TemplateAtom(3)} :> Bond(Scalar(1)))),
        "two")

\* any two bound atoms; the patch adds two atoms
AnyBond ==
    CGRTemplate(
        Graph(TRUE,
              (TemplateAtom(1) :> Atom(None, None)) @@ (TemplateAtom(2) :> Atom(None, None)),
              ({TemplateAtom(1), TemplateAtom(2)} :> Bond(List(<<1, 2>>)))),
        Graph(TRUE,
              (TemplateAtom(1) :> Atom(None, None))
                  @@ (TemplateAtom(2) :> Atom(None, None))
                  @@ (TemplateAtom(3) :> Atom(Scalar("O"), Scalar(0)))
                  @@ (TemplateAtom(4) :> Atom(Scalar("H"), Scalar(0))),
              ({TemplateAtom(1), TemplateAtom(3)} :> Bond(Scalar(1)))
                  @@ ({TemplateAtom(2), TemplateAtom(4)} :> Bond(Scalar(1)))),
        "any")

\* the lists of templates a searcher is built with
TemplateRing == <<OneAtom, TwoAtoms, AnyBond>>

TemplateLists ==
    {[i \in 1..k |-> TemplateRing[((r + i) % Len(TemplateRing)) + 1]] :
     r \in 1..Len(TemplateRing), k \in 1..MaxTemplates}

\* a target of n atoms numbered from 1, all neutral and singly bound
TargetAtom(cgr, element) ==
    [k \in NodeAttrs |->
        CASE k = "element" -> Scalar(element)
          [] k = "s_charge" -> Scalar(0)
          [] k = "sp_charge" -> IF cgr THEN Scalar(0) ELSE None
          [] OTHER -> None]

TargetBond(cgr) ==
    [s_bond |-> Scalar(1), sp_bond |-> IF cgr THEN Scalar(1) ELSE None]

TargetEdges(n) ==
    {{i, i + 1} : i \in 1..(n - 1)}

Targets ==
    UNION {{Graph(cgr, [i \in 1..n |-> TargetAtom(cgr, el[i])],
                  [e \in E |-> TargetBond(cgr)]) :
            cgr \in BOOLEAN, el \in [1..n -> {"C", "N"}],
            E \in SUBSET TargetEdges(n)} :
           n \in 1..MaxTargetAtoms}

\* CGRreactor(): the default configuration
Configs ==
    {[extralabels |-> FALSE, isotope |-> FALSE, element |-> TRUE,
      stereo |-> FALSE]}

NoMatch == MatchContainer(<<>>, Graph(FALSE, <<>>, <<>>), "")

\* an isomorphism is never passed over
skip_filter_never(skip, found_atoms, matched_atoms) == FALSE

\* lines 101-103: whether the searcher passes over an isomorphism
skip_filter(skip, found_atoms, matched_atoms) ==
    skip /\ found_atoms \cap matched_atoms # {}

\* the loop over the isomorphisms is left after the first
remaining_bad(isos, j) == {}

\* line 99: the isomorphisms the matcher has still to give after j
remaining(isos, j) == isos \ {j}

\* the parts of the model that a specification does not run
SearchIdle ==
    /\ config = [extralabels |-> FALSE, isotope |-> FALSE, element |-> TRUE,
                 stereo |-> FALSE]
    /\ templates = <<>>
    /\ target = Graph(FALSE, <<>>, <<>>)
    /\ skip_intersection = TRUE
    /\ search_pc = "idle"
    /\ ti = 0
    /\ pending = {}
    /\ found = {}
    /\ match = NoMatch
    /\ yielded = {}
    /\ nyield = 0

CmpIdle ==
    /\ cmp_a = None
    /\ cmp_b = None
    /\ cmp_pc = "idle"
    /\ cmp_ret = FALSE

(***************************************************************************)
(* CGRreactor.patcher (reactor.py, lines 281-308).                         *)
(***************************************************************************)
\* an attribute dictionary is a function on all the attribute names of
\* the model; a key the dictionary lacks has the value Absent
Absent == [tag |-> "Absent", v |-> <<>>]

\* a conditional attribute: the dict with keys ks[i] and values vs[i]
Dict(ks, vs) == [tag |-> "Dict", v |-> ks \o vs]

DictLen(d) == Len(d.v) \div 2

DictKeys(d) == {d.v[i] : i \in 1..DictLen(d)}

\* d[k]
DictGet(d, k) ==
    d.v[DictLen(d) + (CHOOSE i \in 1..DictLen(d) : d.v[i] = k)]

\* the attribute names of the atoms and of the bonds of the patcher's graphs
PatchNodeAttrs ==
    {"element", "isotope", "mark", "s_charge", "p_charge", "sp_charge"}

PatchEdgeAttrs == {"s_bond", "p_bond", "sp_bond"}

\* lines 289-293
node_marks(structure) ==
    {"s_charge", "s_hyb", "s_neighbors", "s_stereo", "element", "map", "mark"}
        \cup (IF structure.cgr
              THEN {"p_charge", "p_hyb", "p_neighbors", "p_stereo"}
              ELSE {})

\* lines 290-293
bond_marks(structure) ==
    {"s_bond", "s_stereo"}
        \cup (IF structure.cgr THEN {"p_bond", "p_stereo"} ELSE {})

\* whether y[current[x]] raises KeyError; current is the attribute
\* dictionary of the target's atom or bond, or Absent when the target lacks
\* the atom or the bond
KeyErrorAt(y, current, x) ==
    \/ current = Absent
    \/ current[x] = Absent
    \/ current[x].tag # "Val"
    \/ current[x].v[1] \notin DictKeys(y)

\* lines 297-298, 301-302: the keyword arguments of add_node / add_edge
resolve(attr, marks, current) ==
    [x \in DOMAIN attr |->
        IF x \notin marks \/ attr[x] = Absent THEN Absent
        ELSE IF attr[x].tag = "Dict"
             THEN Scalar(DictGet(attr[x], current[x].v[1]))
        ELSE attr[x]]

resolve_error(attr, marks, current) ==
    \E x \in DOMAIN attr \cap marks :
        attr[x].tag = "Dict" /\ KeyErrorAt(attr[x], current, x)

NodeOf(G, i) == IF i \in DOMAIN G.nodes THEN G.nodes[i] ELSE Absent

EdgeOf(G, e) == IF e \in DOMAIN G.edges THEN G.edges[e] ELSE Absent

\* dict.update as add_node / add_edge does it on the attributes of an
\* atom or bond that is there already
update(old, new) ==
    IF old = Absent THEN new
    ELSE IF new = Absent THEN old
    ELSE [x \in DOMAIN old |-> IF new[x] # Absent THEN new[x] ELSE old[x]]

\* networkx compose(G, H): the nodes and edges of both, H's attributes
\* over G's
compose(G, H) ==
    [cgr |-> G.cgr,
     nodes |-> [i \in DOMAIN G.nodes \cup DOMAIN H.nodes |->
                   update(NodeOf(G, i), NodeOf(H, i))],
     edges |-> [e \in DOMAIN G.edges \cup DOMAIN H.edges |->
                   update(EdgeOf(G, e), EdgeOf(H, e))],
     meta |-> <<>>]

\* lines 295-302: the graph p
patcher_p(structure, patch) ==
    [cgr |-> structure.cgr,
     nodes |-> [i \in DOMAIN patch.nodes |->
                   resolve(patch.nodes[i], node_marks(structure),
                           NodeOf(structure, i))],
     edges |-> [e \in DOMAIN patch.edges |->
                   resolve(patch.edges[e], bond_marks(structure),
                           EdgeOf(structure, e))],
     meta |-> <<>>]

\* only the edges that the patch has too are removed from the copy
patcher_s_bad(structure, patch) ==
    [structure EXCEPT
        !.edges = [e \in DOMAIN structure.edges \ DOMAIN patch.edges |->
                      structure.edges[e]]]

\* lines 304-305: the copy s without the edges between common atoms
patcher_s(structure, patch) ==
    LET common == DOMAIN patch.nodes \cap DOMAIN structure.nodes
    IN [structure EXCEPT
           !.edges = [e \in {d \in DOMAIN structure.edges :
                              ~(d \subseteq common)} |-> structure.edges[e]]]

patcher_error(structure, patch) ==
    \/ \E i \in DOMAIN patch.nodes :
          resolve_error(patch.nodes[i], node_marks(structure),
                        NodeOf(structure, i))
    \/ \E e \in DOMAIN patch.edges :
          resolve_error(patch.edges[e], bond_marks(structure),
                        EdgeOf(structure, e))

\* lines 306-308
patcher(structure, patch) ==
    [compose(patcher_s(structure, patch), patcher_p(structure, patch))
        EXCEPT !.meta = structure.meta]

\* bound of the patcher's targets
MaxPatchAtoms == 2

\* the pairs of neighbouring numbers among the atoms S
ChainPairs(S) == {{i, i + 1} : i \in {j \in S : j + 1 \in S}}

\* a target of n carbons with the reagent charges ch, singly or doubly
\* bound; a dual-state target has the product and the combined values too
PatchTargetAtom(cgr, charge) ==
    [x \in PatchNodeAttrs |->
        CASE x = "element" -> Scalar("C")
          [] x = "isotope" -> Scalar(13)
          [] x = "s_charge" -> Scalar(charge)
          [] x \in {"p_charge", "sp_charge"} ->
                IF cgr THEN Scalar(charge) ELSE Absent
          [] OTHER -> Absent]

PatchTargetBond(cgr, order) ==
    [x \in PatchEdgeAttrs |->
        IF x = "s_bond" \/ cgr THEN Scalar(order) ELSE Absent]

PatchTargets ==
    UNION {UNION {{[cgr |-> cgr,
                    nodes |-> [i \in 1..n |-> PatchTargetAtom(cgr, ch[i])],
                    edges |-> [e \in E |-> PatchTargetBond(cgr, ord[e])],
                    meta |-> <<"target">>] :
                   cgr \in BOOLEAN, ch \in [1..n -> {0, 1}],
                   ord \in [E -> {1, 2}]} :
                  E \in SUBSET ChainPairs(1..n)} :
           n \in 1..MaxPatchAtoms}

\* the atoms a patch may give: the target's own atom, an atom of plain
\* values, an atom of conditional charges
PatchAtom(structure, i, kind) ==
    CASE kind = "same" /\ i \in DOMAIN structure.nodes -> structure.nodes[i]
      [] kind = "conditional" ->
            [x \in PatchNodeAttrs |->
                CASE x = "s_charge" -> Dict(<<0, 1>>, <<1, 0>>)
                  [] x = "p_charge" -> Dict(<<0, 1>>, <<1, 1>>)
                  [] OTHER -> Absent]
      [] OTHER ->
            [x \in PatchNodeAttrs |->
                CASE x = "element" -> Scalar("N")
                  [] x = "isotope" -> Scalar(14)
                  [] x = "mark" -> Absent
                  [] OTHER -> Scalar(1)]

PatchBond(structure, e, kind) ==
    CASE kind = "same" /\ e \in DOMAIN structure.edges -> structure.edges[e]
      [] kind = "conditional" ->
            [x \in PatchEdgeAttrs |->
                IF x = "s_bond" THEN Dict(<<1, 2>>, <<2, 1>>) ELSE Absent]
      [] OTHER -> [x \in PatchEdgeAttrs |-> Scalar(2)]

PatchKinds == {"same", "plain", "conditional"}

\* the patches for a target: on some of its atoms and on one new atom
Patches(structure) ==
    LET n == Cardinality(DOMAIN structure.nodes)
    IN UNION {{[cgr |-> TRUE,
                nodes |-> [i \in P |-> PatchAtom(structure, i, nk)],
                edges |-> [e \in E |-> PatchBond(structure, e, ek)],
                meta |-> <<"patch">>] :
               nk \in PatchKinds, ek \in PatchKinds, E \in SUBSET ChainPairs(P)} :
              P \in SUBSET (1..(n + 1))}

NoGraph == [cgr |-> FALSE, nodes |-> <<>>, edges |-> <<>>, meta |-> <<>>]

PatchIdle ==
    /\ pt_structure = NoGraph
    /\ pt_patch = NoGraph
    /\ pt_pc = "idle"
    /\ pt_exc = "none"
    /\ pt_out = NoGraph

(***************************************************************************)
(* CGRreactor.clone_subgraphs and __split_graph (reactor.py, lines         *)
(* 111-214).                                                               *)
(***************************************************************************)
\* bound of the graphs clone_subgraphs is called with
MaxCloneAtoms == 4

\* a tuple-valued attribute, as sp_bond = (1, None)
Pair(a, b) == [tag |-> "Pair", v |-> <<a, b>>]

\* the bonds of a CGR: unchanged, reagent-only (broken), product-only
\* (formed)
CloneBond(kind) ==
    CASE kind = "same" ->
            [s_bond |-> Scalar(1), p_bond |-> Scalar(1), sp_bond |-> Scalar(1)]
      [] kind = "lost" ->
            [s_bond |-> Scalar(1), p_bond |-> Absent,
             sp_bond |-> Pair(Scalar(1), None)]
      [] kind = "new" ->
            [s_bond |-> Absent, p_bond |-> Scalar(1),
             sp_bond |-> Pair(None, Scalar(1))]

CloneAtom(element) == [element |-> Scalar(element), p_charge |-> Scalar(0)]

neighbors(G, n) == {m \in DOMAIN G.nodes : {n, m} \in DOMAIN G.edges}

\* the sequences that list the elements of S once each
RECURSIVE Perms(_)
Perms(S) ==
    IF S = {} THEN {<<>>}
    ELSE UNION {{<<x>> \o p : p \in Perms(S \ {x})} : x \in S}

\* the sequence of the elements of a set of numbers, ascending
RECURSIVE Ascending(_)
Ascending(S) ==
    IF S = {} THEN <<>>
    ELSE LET x == CHOOSE y \in S : \A z \in S : y <= z
         IN <<x>> \o Ascending(S \ {x})

\* itertools.combinations(range(1, k + 1), 2) from the pair (i, j) on
RECURSIVE combinations_from(_, _, _)
combinations_from(k, i, j) ==
    IF i >= k THEN <<>>
    ELSE IF j > k THEN combinations_from(k, i + 1, i + 2)
    ELSE <<<<i, j>>>> \o combinations_from(k, i, j + 1)

\* every pair of neighbours of an atom is taken for a substitution
substitution_path_bad(G, n, m, l) == <<<<m, n, l>>>>

\* lines 143-149: what the pair (m, l) of neighbours of n yields
substitution_path(G, n, m, l) ==
    LET nms == G.edges[{n, m}].sp_bond
        nls == G.edges[{n, l}].sp_bond
    IN IF nms = Pair(Scalar(1), None) /\ nls = Pair(None, Scalar(1))
       THEN <<<<m, n, l>>>>
       ELSE IF nms = Pair(None, Scalar(1)) /\ nls = Pair(Scalar(1), None)
       THEN <<<<l, n, m>>>>
       ELSE <<>>

\* lines 143-149 for the atom n whose neighbours come in the order nbr
RECURSIVE paths_of_pairs(_, _, _, _)
paths_of_pairs(G, n, nbr, pairs) ==
    IF pairs = <<>> THEN <<>>
    ELSE substitution_path(G, n, nbr[Head(pairs)[1]], nbr[Head(pairs)[2]])
             \o paths_of_pairs(G, n, nbr, Tail(pairs))

paths_at(G, n, nbr) ==
    paths_of_pairs(G, n, nbr, combinations_from(Len(nbr), 1, 2))

\* __get_substitution_paths: the triples (detached atom, centre, attached
\* atom) in the orders they may be yielded in: the atoms ascending, the
\* neighbours of an atom in any order
RECURSIVE get_substitution_paths(_, _)
get_substitution_paths(G, ns) ==
    IF ns = <<>> THEN {<<>>}
    ELSE {p \o q :
          p \in {paths_at(G, Head(ns), nbr) :
                 nbr \in Perms(neighbors(G, Head(ns)))},
          q \in get_substitution_paths(G, Tail(ns))}

\* line 153 for the atom n, whose neighbours not yet gone through come in
\* the order nbr: g.edges() gives (n, neighbour), the pair is yielded
\* the other way round
RECURSIVE broken_at(_, _, _)
broken_at(G, n, nbr) ==
    IF nbr = <<>> THEN <<>>
    ELSE (IF G.edges[{n, Head(nbr)}].sp_bond = Pair(None, Scalar(1))
          THEN <<<<Head(nbr), n>>>> ELSE <<>>)
             \o broken_at(G, n, Tail(nbr))

\* __get_broken_paths: the product-only bonds in the orders g.edges() may
\* give them in: the atoms ascending, the neighbours of an atom in any
\* order
RECURSIVE get_broken_paths(_, _)
get_broken_paths(G, ns) ==
    IF ns = <<>> THEN {<<>>}
    ELSE {p \o q :
          p \in {broken_at(G, Head(ns), nbr) :
                 nbr \in Perms({m \in neighbors(G, Head(ns)) : m > Head(ns)})},
          q \in get_broken_paths(G, Tail(ns))}

remove_edge(G, e) ==
    [G EXCEPT !.edges = [d \in DOMAIN G.edges \ {e} |-> G.edges[d]]]

\* networkx has_path
has_path(G, a, b) ==
    LET RECURSIVE Grow(_)
        Grow(S) ==
            LET T == S \cup UNION {neighbors(G, u) : u \in S}
            IN IF T = S THEN S ELSE Grow(T)
    IN b \in Grow({a})

\* lines 117-124, one turn of the loop for the path (l, n, m); remove_edge
\* raises NetworkXError for an edge that is not there
cut(st, path) ==
    LET n == path[2]
        l == path[1]
        m == path[3]
        st1 == [st EXCEPT !.lost_bonds = Append(@, <<n, l>>)]
    IN IF st.exc # "none" THEN st
       ELSE IF <<n, l>> \in Range(st.lost_bonds) THEN st
       ELSE IF {n, l} \notin DOMAIN st.g.edges
       THEN [st1 EXCEPT !.exc = "NetworkXError"]
       ELSE IF {n, m} \notin DOMAIN st.g.edges
       THEN [st1 EXCEPT !.exc = "NetworkXError", !.g = remove_edge(@, {n, l})]
       ELSE [st1 EXCEPT !.g = remove_edge(remove_edge(@, {n, l}), {n, m})]

\* lines 117-124: the loop over the paths in the order ps
RECURSIVE cut_all(_, _)
cut_all(st, ps) ==
    IF ps = <<>> THEN st ELSE cut_all(cut(st, Head(ps)), Tail(ps))

\* lines 126-130, one turn of the loop for the product-only bond (n, m)
break_path(st, nm) ==
    LET ends == UNION {{b[1], b[2]} : b \in Range(st.lost_bonds)}
    IN IF \E x \in ends, y \in {nm[1], nm[2]} : has_path(st.g, x, y)
       THEN st
       ELSE [st EXCEPT !.g = remove_edge(@, {nm[1], nm[2]}),
                       !.term_atoms = @ \o nm]

RECURSIVE break_all(_, _)
break_all(st, bs) ==
    IF bs = <<>> THEN st ELSE break_all(break_path(st, Head(bs)), Tail(bs))

\* CGRcore.split: the connected components, each as a graph
component(G, a) == {b \in DOMAIN G.nodes : has_path(G, a, b)}

subgraph(G, S) ==
    [G EXCEPT !.nodes = [n \in S |-> G.nodes[n]],
              !.edges = [e \in {d \in DOMAIN G.edges : d \subseteq S} |->
                            G.edges[e]]]

RECURSIVE split_from(_, _)
split_from(G, todo) ==
    IF todo = {} THEN <<>>
    ELSE LET a == CHOOSE x \in todo : \A y \in todo : x <= y
             S == component(G, a)
         IN <<subgraph(G, S)>> \o split_from(G, todo \ S)

split(G) == split_from(G, DOMAIN G.nodes)

\* lines 111-132: the results __split_graph may give: the cut copy, the
\* components, lost_bonds and term_atoms, or the exception
split_graph(G) ==
    LET st0 == [g |-> G, lost_bonds |-> <<>>, term_atoms |-> <<>>,
                exc |-> "none", components |-> <<>>]
        atoms(H) == Ascending(DOMAIN H.nodes)
    IN UNION {LET st1 == cut_all(st0, ps)
              IN IF st1.exc # "none" THEN {st1}
                 ELSE {LET st2 == break_all(st1, bs)
                       IN [st2 EXCEPT !.components = split(st2.g)] :
                       bs \in get_broken_paths(st1.g, atoms(st1.g))} :
              ps \in get_substitution_paths(G, atoms(G))}

\* lines 169-173
lost_map(lost_bonds) ==
    [x \in {b[1] : b \in Range(lost_bonds)} |->
        lost_bonds[CHOOSE i \in DOMAIN lost_bonds :
                      /\ lost_bonds[i][1] = x
                      /\ \A j \in DOMAIN lost_bonds :
                            lost_bonds[j][1] = x => j <= i][2]]

x_terminals(lost_bonds) == Range(lost_map(lost_bonds))

r_terminals(lost_bonds) == DOMAIN lost_map(lost_bonds)

\* lines 176-177
is_x_group(lost_bonds, i) ==
    x_terminals(lost_bonds) \cap DOMAIN i.nodes # {}

\* lines 181-182
is_r_group(lost_bonds, i) ==
    /\ ~is_x_group(lost_bonds, i)
    /\ r_terminals(lost_bonds) \cap DOMAIN i.nodes # {}

\* the subsequence of s at the indices in I
RECURSIVE SubSeqAt(_, _)
SubSeqAt(s, I) ==
    IF I = {} THEN <<>>
    ELSE LET i == CHOOSE x \in I : \A y \in I : x <= y
         IN <<s[i]>> \o SubSeqAt(s, I \ {i})

\* lines 175-186: the groups the components may be sorted into; the key
\* of an X-group is any one of its detached atoms (set.pop)
classify(components, lost_bonds) ==
    LET xs == {i \in DOMAIN components : is_x_group(lost_bonds, components[i])}
        rs == SubSeqAt(components,
                       {i \in DOMAIN components :
                           is_r_group(lost_bonds, components[i])})
        news == SubSeqAt(components,
                         {i \in DOMAIN components :
                             /\ ~is_x_group(lost_bonds, components[i])
                             /\ ~is_r_group(lost_bonds, components[i])})
    IN {[x_group |-> [a \in {key[i] : i \in xs} |->
                         components[CHOOSE i \in xs : key[i] = a]],
         r_group |-> [n \in DOMAIN rs |->
                         [k |-> r_terminals(lost_bonds) \cap DOMAIN rs[n].nodes,
                          j |-> rs[n]]],
         newcomponents |-> news] :
        key \in {f \in [xs -> x_terminals(lost_bonds)] :
                    \A i \in xs : f[i] \in DOMAIN components[i].nodes}}

\* __init__, lines 42-56: the attributes compared on the product side
cnm_p(c) ==
    <<"element", "p_charge">>
        \o (IF c.isotope THEN <<"isotope">> ELSE <<>>)
        \o (IF c.stereo THEN <<"p_stereo">> ELSE <<>>)

\* data.get(attr, None) of an attribute dictionary of the clone's graphs
GetAttr(data, attr) ==
    IF attr \in DOMAIN data /\ data[attr] # Absent THEN data[attr] ELSE None

\* networkx categorical_node_match, categorical_edge_match
categorical_match(attrs, data1, data2) ==
    \A i \in 1..Len(attrs) : GetAttr(data1, attrs[i]) = GetAttr(data2, attrs[i])

\* line 192: GraphMatcher(j, i, node_match=..._products, ...): the mappings
\* of node-induced subgraphs of G1 onto G2
product_isomorphisms(c, G1, G2) ==
    {Inverse(f) :
     f \in {h \in [DOMAIN G2.nodes -> DOMAIN G1.nodes] :
        /\ \A u, v \in DOMAIN h : u # v => h[u] # h[v]
        /\ \A u \in DOMAIN h :
              categorical_match(cnm_p(c), G1.nodes[h[u]], G2.nodes[u])
        /\ \A u, v \in DOMAIN h :
              u # v => ({u, v} \in DOMAIN G2.edges
                        <=> {h[u], h[v]} \in DOMAIN G1.edges)
        /\ \A u, v \in DOMAIN h :
              {u, v} \in DOMAIN G2.edges =>
                  categorical_match(<<"p_bond">>, G1.edges[{h[u], h[v]}],
                                    G2.edges[{u, v}])}}

\* lines 196-197: the isomorphisms next() may give
clone_mappings(c, j, i, k, term_atoms) ==
    {x \in product_isomorphisms(c, j, i) :
        k \subseteq DOMAIN x /\ \A y \in k : x[y] \in Range(term_atoms)}

\* lines 191-201: the inner loop over the R-groups rs for the component i
RECURSIVE clone_one(_, _, _, _, _)
clone_one(c, st, i, rs, term_atoms) ==
    IF rs = <<>> THEN {st}
    ELSE LET k == Head(rs).k
             j == Head(rs).j
             found_maps == clone_mappings(c, j, i, k, term_atoms)
         IN IF found_maps = {}
            THEN clone_one(c, st, i, Tail(rs), term_atoms)
            ELSE UNION {{[st EXCEPT
                            !.r_group_clones =
                                Append(@, [k |-> k, mapping |-> mapping]),
                            !.tmp = compose(st.tmp, remap(j, newmap)),
                            !.tmp_is_g = FALSE] :
                         newmap \in newmaps(j, st.tmp, mapping)} :
                        mapping \in found_maps}

\* lines 190-201: the loop over newcomponents, from the states S
RECURSIVE clone_all(_, _, _, _, _)
clone_all(c, S, news, rs, term_atoms) ==
    IF news = <<>> THEN S
    ELSE clone_all(c, UNION {clone_one(c, st, Head(news), rs, term_atoms) :
                             st \in S},
                   Tail(news), rs, term_atoms)

\* CGRcore.union: the two graphs side by side
union(G, H) == compose(G, H)

\* lines 207-209 for the centre k of a clone made with mapping j
attach_one(st, x_group, lmap, j, k) ==
    IF st.exc # "none" THEN {st}
    ELSE IF lmap[k] \notin DOMAIN x_group
    THEN {[st EXCEPT !.exc = "KeyError"]}
    ELSE {LET remappedgroup == remap(x_group[lmap[k]], mapping)
              joined == union(st.tmp, remappedgroup)
              e == {j[k], mapping[lmap[k]]}
              attr == [s_bond |-> Scalar(1), p_bond |-> Absent,
                       sp_bond |-> Pair(Scalar(1), None)]
          IN [st EXCEPT
                 !.tmp = [joined EXCEPT
                             !.edges = [d \in DOMAIN joined.edges \cup {e} |->
                                           IF d = e
                                           THEN update(EdgeOf(joined, e), attr)
                                           ELSE joined.edges[d]]],
                 !.tmp_is_g = FALSE] :
          mapping \in newmaps(x_group[lmap[k]], st.tmp, <<>>)}

\* lines 206-209: the loop over the centres ks of one clone
RECURSIVE attach_centres(_, _, _, _, _)
attach_centres(S, x_group, lmap, j, ks) ==
    IF ks = <<>> THEN S
    ELSE attach_centres(UNION {attach_one(st, x_group, lmap, j, Head(ks)) :
                               st \in S},
                        x_group, lmap, j, Tail(ks))

\* lines 205-209: the loop over the clones
RECURSIVE attach_all(_, _, _, _)
attach_all(S, x_group, lmap, clones) ==
    IF clones = <<>> THEN S
    ELSE attach_all(UNION {attach_centres(S, x_group, lmap,
                                          Head(clones).mapping, ks) :
                           ks \in Perms(Head(clones).k)},
                    x_group, lmap, Tail(clones))

\* dict.update of the metadata
meta_update(meta, other) ==
    [x \in DOMAIN meta \cup DOMAIN other |->
        IF x \in DOMAIN other THEN other[x] ELSE meta[x]]

\* the cuts are made on the input itself
input_after_split_bad(G, cut_graph) == cut_graph

\* line 113: __split_graph cuts a copy, the input keeps its bonds
input_after_split(G, cut_graph) == G

\* line 214: a copy of the working graph is returned
returned(tmp, tmp_is_g) == [graph |-> tmp, is_input |-> FALSE]

\* every graph passes for a CGRContainer
is_cgr_bad(G) == TRUE

\* line 158: isinstance(g, CGRContainer)
is_cgr(G) == G.cgr

\* the configuration of the reactor clone_subgraphs is called on
CloneConfig == CHOOSE c \in Configs : TRUE

\* the pairs of atoms that may be bonded in the graphs given to
\* clone_subgraphs: neighbours in the chain, and the first atom with the
\* third
ClonePairs(n) ==
    {{i, i + 1} : i \in 1..(n - 1)} \cup (IF n >= 3 THEN {{1, 3}} ELSE {})

\* the graphs clone_subgraphs is called with: CGRs with unchanged, broken
\* and formed bonds, and molecules
CloneGraphs ==
    UNION {
      {[cgr |-> TRUE,
        nodes |-> [i \in 1..n |-> CloneAtom(IF i = n THEN last ELSE "C")],
        edges |-> [e \in DOMAIN kinds |-> CloneBond(kinds[e])],
        meta |-> <<"name">>] :
       last \in {"C", "N"},
       kinds \in UNION {[E -> {"same", "lost", "new"}] :
                        E \in SUBSET ClonePairs(n)}}
      \cup
      {[cgr |-> FALSE,
        nodes |-> [i \in 1..n |-> CloneAtom("C")],
        edges |-> [e \in E |-> [s_bond |-> Scalar(1), p_bond |-> Absent,
                                sp_bond |-> Absent]],
        meta |-> <<"name">>] :
       E \in SUBSET {{i, i + 1} : i \in 1..(n - 1)}} :
      n \in 1..MaxCloneAtoms}

NoSplit ==
    [g |-> NoGraph, lost_bonds |-> <<>>, term_atoms |-> <<>>, exc |-> "none",
     components |-> <<>>]

NoGroups == [x_group |-> <<>>, r_group |-> <<>>, newcomponents |-> <<>>]

NoWork ==
    [tmp |-> NoGraph, r_group_clones |-> <<>>, tmp_is_g |-> FALSE,
     exc |-> "none"]

NoReturn == [graph |-> NoGraph, is_input |-> FALSE]

CloneIdle ==
    /\ cl_g = NoGraph
    /\ cl_g0 = NoGraph
    /\ cl_pc = "idle"
    /\ cl_exc = "none"
    /\ cl_split = NoSplit
    /\ cl_groups = NoGroups
    /\ cl_work = NoWork
    /\ cl_ret = NoReturn

(***************************************************************************)
(* CGRreactor.prepare_templates (reactor.py, lines 230-279).               *)
(***************************************************************************)
\* bound of the atoms of a raw template
MaxPrepareAtoms == 2

\* lines 231-232
a_marks ==
    {"element", "s_charge", "s_hyb", "s_neighbors", "p_charge", "p_hyb",
     "p_neighbors", "s_stereo", "p_stereo", "s_radical", "p_radical"}

\* line 233
b_marks == {"s_bond", "p_bond", "s_stereo", "p_stereo"}

\* line 234
x_marks == {"s_x", "s_y", "s_z", "p_x", "p_y", "p_z"}

\* the keys of an attribute dictionary
Keys(attr) == {j \in DOMAIN attr : attr[j] # Absent}

\* dict(zip(ks, vs)): the pairs by position, as many as the shorter list
\* has, a later pair replacing an earlier one with the same key
zip_dict(ks, vs) ==
    LET n == IF Len(ks) <= Len(vs) THEN Len(ks) ELSE Len(vs)
        firsts == {i \in 1..n : \A j \in 1..(i - 1) : ks[j] # ks[i]}
        keys == SubSeqAt(ks, firsts)
        last(k) == CHOOSE i \in 1..n :
                       ks[i] = k /\ \A j \in (i + 1)..n : ks[j] # k
    IN Dict(keys, [i \in DOMAIN keys |-> vs[last(keys[i])]])

\* lines 258-260 and 268-270 for the attribute j with the pattern value r
\* and the patch value p: the exception or the new patch value. zip goes
\* through a list, and through a string character by character (elements
\* are single characters here); a number or None is not iterable
conditional(j, r, p) ==
    IF p.tag # "List" THEN [exc |-> "none", value |-> p]
    ELSE IF r = Absent THEN [exc |-> "KeyError", value |-> p]
    ELSE IF r.tag = "List" \/ (r.tag = "Val" /\ j = "element")
    THEN [exc |-> "none", value |-> zip_dict(r.v, p.v)]
    ELSE [exc |-> "TypeError", value |-> p]

\* the list-valued attributes among marks of an attribute dictionary
variable(attr, marks) ==
    {j \in marks \cap Keys(attr) : attr[j].tag = "List"}

\* line 247
new_atoms(reagents, products) == DOMAIN products.nodes \ DOMAIN reagents.nodes

\* lines 248-252
new_atoms_variable(reagents, products) ==
    \E n \in new_atoms(reagents, products) :
        variable(products.nodes[n], a_marks) # {}

\* line 254
common(reagents, products) == DOMAIN products.nodes \cap DOMAIN reagents.nodes

\* lines 255-262 for the atom n: the exceptions that may come first
common_atom_errors(reagents, products, n) ==
    LET pnn == products.nodes[n]
        rnn == reagents.nodes[n]
        conv == {conditional(j, rnn[j], pnn[j]).exc :
                 j \in a_marks \cap Keys(pnn)} \ {"none"}
    IN IF conv # {} THEN conv
       ELSE IF x_marks \subseteq Keys(pnn) THEN {} ELSE {"KeyError"}

\* lines 255-262 for the atom n: its attributes in the patch
common_atom(reagents, products, n) ==
    LET pnn == products.nodes[n]
        rnn == reagents.nodes[n]
    IN [j \in DOMAIN pnn |->
           IF j \in x_marks THEN Absent
           ELSE IF j \in a_marks \cap Keys(pnn)
           THEN conditional(j, rnn[j], pnn[j]).value
           ELSE pnn[j]]

\* lines 264-273 for the bond e: the exceptions that may come first
bond_errors(reagents, products, e) ==
    LET a == products.edges[e]
    IN IF e \in DOMAIN reagents.edges
       THEN {conditional(j, reagents.edges[e][j], a[j]).exc :
             j \in b_marks \cap Keys(a)} \ {"none"}
       ELSE IF variable(a, b_marks) # {} THEN {"InvalidTemplate"} ELSE {}

\* lines 264-273 for the bond e: its attributes in the patch
bond(reagents, products, e) ==
    LET a == products.edges[e]
    IN IF e \in DOMAIN reagents.edges
       THEN [j \in DOMAIN a |->
                IF j \in b_marks \cap Keys(a)
                THEN conditional(j, reagents.edges[e][j], a[j]).value
                ELSE a[j]]
       ELSE a

\* the identifiers stay as they are
shift_bad(G) == G

\* lines 275-276: remap({x: x + 1000 for x in g})
shift(G) == remap(G, [x \in DOMAIN G.nodes |-> x + TemplateOffset])

\* line 238
is_template(template) == "pattern" \in DOMAIN template

NoTemplate == CGRTemplate(Graph(FALSE, <<>>, <<>>), Graph(FALSE, <<>>, <<>>), "")

\* lines 237-278, one turn of the loop: the exception raised, or the
\* template appended
prepare_template(template) ==
    IF is_template(template)
    THEN {[exc |-> "none", template |-> template]}
    ELSE LET reagents == template.reagents
             products == template.products
             failed(x) == [exc |-> x, template |-> NoTemplate]
             atom_errors == UNION {common_atom_errors(reagents, products, n) :
                                   n \in common(reagents, products)}
             edge_errors == UNION {bond_errors(reagents, products, e) :
                                   e \in DOMAIN products.edges}
             patch ==
                 [products EXCEPT
                     !.nodes = [n \in DOMAIN products.nodes |->
                                   IF n \in common(reagents, products)
                                   THEN common_atom(reagents, products, n)
                                   ELSE products.nodes[n]],
                     !.edges = [e \in DOMAIN products.edges |->
                                   bond(reagents, products, e)]]
         IN IF ~(reagents.cgr /\ products.cgr)
            THEN {failed("InvalidTemplate")}
            ELSE IF new_atoms_variable(reagents, products)
            THEN {failed("InvalidTemplate")}
            ELSE IF atom_errors # {} THEN {failed(x) : x \in atom_errors}
            ELSE IF edge_errors # {} THEN {failed(x) : x \in edge_errors}
            ELSE {[exc |-> "none",
                   template |-> CGRTemplate(shift(reagents), shift(patch),
                                            template.meta)]}

\* the attributes of the atoms of the raw templates: the pattern's atoms
\* plain or with a list of charges, the patch's atoms plain, with a list
\* of charges as long or shorter, or with a list of isotopes
RawAtom(side, kind) ==
    [j \in {"element", "isotope", "p_charge"} \cup x_marks |->
        CASE j = "element" -> Scalar("C")
          [] j = "isotope" ->
                IF kind = "isotopes" THEN List(<<12, 13>>) ELSE None
          [] j = "p_charge" ->
                (CASE kind = "list" ->
                        IF side = "reagents" THEN List(<<0, 1>>)
                        ELSE List(<<1, 2>>)
                   [] kind = "short" -> List(<<1>>)
                   [] OTHER -> Scalar(0))
          [] OTHER -> Scalar(0)]

RawAtomKinds(side) ==
    IF side = "reagents" THEN {"plain", "list"}
    ELSE {"plain", "list", "short", "isotopes"}

\* the attributes of the bonds: plain or with a list of product orders
RawBond(side, kind) ==
    [s_bond |-> Scalar(1),
     p_bond |-> IF kind = "plain" THEN Scalar(1)
                ELSE IF side = "reagents" THEN List(<<1, 2>>)
                ELSE List(<<2, 1>>),
     sp_bond |-> Scalar(1)]

\* the graphs of one side on the atoms S; only the atoms 1 and 2 may be
\* bonded
RawGraphs(side, S) ==
    {Graph(TRUE, [n \in S |-> RawAtom(side, kinds[n])],
           [e \in DOMAIN bonds |-> RawBond(side, bonds[e])]) :
     kinds \in [S -> RawAtomKinds(side)],
     bonds \in UNION {[E -> {"plain", "list"}] :
                      E \in SUBSET {e \in {{1, 2}} : e \subseteq S}}}

\* the sets of atoms from a to b
Intervals(n) == {a..b : a, b \in 1..n} \ {{}}

\* a raw template: the unions of its reagents and of its products
RawTemplate(reagents, products, meta) ==
    [reagents |-> reagents, products |-> products, meta |-> meta]

RawTemplates ==
    {RawTemplate(r, p, "raw") :
     r \in UNION {RawGraphs("reagents", 1..n) : n \in 1..MaxPrepareAtoms},
     p \in UNION {RawGraphs("products", S) : S \in Intervals(MaxPrepareAtoms)}}
    \cup
    {RawTemplate(Graph(c[1], [n \in {1} |-> RawAtom("reagents", "plain")], <<>>),
                 Graph(c[2], [n \in 1..2 |-> RawAtom("products", k)], <<>>),
                 "raw") :
     c \in {<<TRUE, FALSE>>, <<FALSE, TRUE>>, <<FALSE, FALSE>>},
     k \in {"plain", "list"}}

\* a template prepared before
Prepared ==
    CGRTemplate(shift(Graph(TRUE, [n \in {1} |-> RawAtom("reagents", "list")],
                            <<>>)),
                Graph(TRUE,
                      [n \in {1 + TemplateOffset} |->
                          common_atom(
                              Graph(TRUE, [m \in {1 + TemplateOffset} |->
                                              RawAtom("reagents", "list")], <<>>),
                              Graph(TRUE, [m \in {1 + TemplateOffset} |->
                                              RawAtom("products", "list")], <<>>),
                              1 + TemplateOffset)],
                      <<>>),
                "prepared")

\* the lists prepare_templates is called with: one raw template, alone, or
\* after or before a prepared one
RawTemplateLists ==
    {<<t>> : t \in RawTemplates}
        \cup {<<Prepared, t>> : t \in RawTemplates}
        \cup {<<t, Prepared>> : t \in RawTemplates}

PrepareIdle ==
    /\ pr_raw = <<>>
    /\ pr_i = 0
    /\ pr_templates = <<>>
    /\ pr_exc = "none"
    /\ pr_ret = <<>>
    /\ pr_pc = "idle"

\* a graph with no atoms and no call made on it
NoLabels == [tag |-> "Absent", v |-> <<>>]

NoCall == [call |-> "none", labels |-> <<>>]

MarksIdle ==
    /\ mk_nodes = <<>>
    /\ mk_adj = <<>>
    /\ mk_bonds = <<>>
    /\ mk_labels = <<>>
    /\ mk_out = NoCall

\* atom 1 with no neighbour and no call made on it
NoStereoCall == [exc |-> "none", s |-> 0, p |-> 0]

StereoIdle ==
    /\ st_centre = [s_z |-> FALSE, p_z |-> FALSE]
    /\ st_nb = <<>>
    /\ st_stereo = [s |-> 0, p |-> 0]
    /\ st_out = NoStereoCall

\* no molecule (molecule = None), and the reader before its first line
NoMolecule == [tag |-> "None", atoms |-> <<>>, bonds |-> <<>>, CGR_DAT |-> <<>>,
               meta |-> <<>>, rec |-> 0]

NewReader ==
    [im |-> 3, atomcount |-> -1, bondcount |-> -1, failkey |-> FALSE,
     mkey |-> FALSE, molecule |-> NoMolecule, mend |-> FALSE,
     collected |-> <<>>, out |-> <<>>, exc |-> "none"]

SdfIdle ==
    /\ rd_file = <<>>
    /\ rd_n = 0
    /\ rd = NewReader
    /\ rd_pc = "idle"

\* MRVwrite(file): nothing written, write bound to __init_write (line 223),
\* __finalized False (line 316)
MrvIdle ==
    /\ wr_out = <<>>
    /\ wr_write = "__init_write"
    /\ wr_finalized = FALSE
    /\ wr_closed = FALSE

(***************************************************************************)
(* The container's specification: any sequence of add_atom and add_bond.   *)
(***************************************************************************)
ContainerIdle ==
    /\ nodes = <<>>
    /\ edges = <<>>
    /\ added = 0
    /\ outcome = Returned(None)

SssrIdle ==
    /\ g = [nodes |-> <<>>, edges |-> {}]
    /\ tie = "asc"
    /\ sssr_pc = "idle"
    /\ pid1 = <<>>
    /\ pid2 = <<>>
    /\ sssr = None

ContainerFrame == UNCHANGED <<sssrVars, searchVars, cmpVars, patchVars, cloneVars, prepareVars, marksVars, stereoVars, sdfVars, mrvVars>>

\* CGRContainer(): the empty graph
ContainerInit ==
    /\ ContainerIdle
    /\ SssrIdle
    /\ SearchIdle
    /\ CmpIdle
    /\ PatchIdle
    /\ CloneIdle
    /\ PrepareIdle
    /\ MarksIdle
    /\ StereoIdle
    /\ SdfIdle
    /\ MrvIdle

AddAtom ==
    /\ \E a \in AtomArgs, map \in MapArgs :
          /\ add_atom_error(nodes, a, map) = ""
                 => Cardinality(DOMAIN nodes) < MaxAtoms
          /\ add_atom(a, map)
    /\ ContainerFrame

AddBond ==
    \E atom1, atom2 \in DOMAIN nodes \cup {MissingAtom},
       s_mark, p_mark \in MarkArgs, ignore \in BOOLEAN :
        /\ atom1 # atom2
        /\ add_bond(atom1, atom2, s_mark, p_mark, ignore)
        /\ ContainerFrame

ContainerNext == AddAtom \/ AddBond

SpecContainer == ContainerInit /\ [][ContainerNext]_vars

(***************************************************************************)
(* find_sssr (algorithms/sssr.py).  The graph is its nodes in iteration    *)
(* order and its edges, each a set of two nodes.                           *)
(***************************************************************************)
\* bounds of the graphs find_sssr is called with
MaxNodes == 4

MaxRing == 5

Last(p) == p[Len(p)]

Reverse(s) == [i \in 1..Len(s) |-> s[Len(s) + 1 - i]]

Adj(G, u) == {v \in Range(G.nodes) : {u, v} \in G.edges}

\* line 38
n_sssr_bad(G) == Cardinality(G.edges) - Len(G.nodes)

n_sssr(G) == Cardinality(G.edges) - Len(G.nodes) + 1

\* combinations(g, 2): the pairs in the iteration order of the nodes
combinations2(G) ==
    {<<G.nodes[q[1]], G.nodes[q[2]]>> :
     q \in {x \in (1..Len(G.nodes)) \X (1..Len(G.nodes)) : x[1] < x[2]}}

\* the simple paths one node longer than those of P that have not reached t
Extend(G, P, t) ==
    UNION {{Append(p, v) : v \in Adj(G, Last(p)) \ Range(p)} :
           p \in {q \in P : Last(q) # t}}

\* the simple paths from the start of P, of the smallest length at which one
\* reaches t; {} when none does
RECURSIVE ShortestLevel(_, _, _)
ShortestLevel(G, P, t) ==
    IF P = {} THEN {}
    ELSE IF \E p \in P : Last(p) = t THEN P
    ELSE ShortestLevel(G, Extend(G, P, t), t)

\* Python's order of two lists of numbers
RECURSIVE PathLess(_, _)
PathLess(a, b) ==
    IF a = <<>> THEN b # <<>>
    ELSE IF b = <<>> THEN FALSE
    ELSE IF Head(a) # Head(b) THEN Head(a) < Head(b)
    ELSE PathLess(Tail(a), Tail(b))

\* shortest_simple_paths gives the paths by length; the order among paths
\* of one length is that of its search, here ascending or descending
RECURSIVE OrderPaths(_, _)
OrderPaths(P, t) ==
    IF P = {} THEN <<>>
    ELSE LET m == CHOOSE x \in P : \A y \in P \ {x} :
                      IF t = "asc" THEN PathLess(x, y) ELSE PathLess(y, x)
         IN <<m>> \o OrderPaths(P \ {m}, t)

\* lines 46-61 for one pair: what the loop leaves in pid1[ij] and pid2[ij]
\* (no pid2 entry is written as the empty list)
PairPaths(G, ij, t) ==
    LET L == ShortestLevel(G, {<<ij[1]>>}, ij[2])
    IN [p1 |-> OrderPaths({p \in L : Last(p) = ij[2]}, t),
        p2 |-> OrderPaths({p \in Extend(G, L, ij[2]) : Last(p) = ij[2]}, t)]

\* shortest_simple_paths raises NetworkXNoPath for a pair with no path
NoPath(G, ij) == ShortestLevel(G, {<<ij[1]>>}, ij[2]) = {}

\* Python's order of two lists of paths
RECURSIVE PathListLess(_, _)
PathListLess(a, b) ==
    IF a = <<>> THEN b # <<>>
    ELSE IF b = <<>> THEN FALSE
    ELSE IF Head(a) # Head(b) THEN PathLess(Head(a), Head(b))
    ELSE PathListLess(Tail(a), Tail(b))

\* the order of two (c_num, p1ij, p2ij) tuples; two pairs never have the
\* same p1ij, so p2ij is never compared
CandidateLess(x, y) ==
    IF x.c_num # y.c_num THEN x.c_num < y.c_num ELSE PathListLess(x.p1, y.p1)

\* lines 63-75
c_set(P1, P2) ==
    {[c_num |-> 2 * (Len(P1[ij][1]) - 1) + (IF P2[ij] # <<>> THEN 1 ELSE 0),
      p1 |-> P1[ij], p2 |-> P2[ij]] :
     ij \in {x \in DOMAIN P1 : ~(P2[x] = <<>> /\ Len(P1[x]) = 1)}}

\* the candidates by descending score
RECURSIVE sorted_bad(_)
sorted_bad(C) ==
    IF C = {} THEN <<>>
    ELSE LET m == CHOOSE x \in C : \A y \in C \ {x} : CandidateLess(y, x)
         IN <<m>> \o sorted_bad(C \ {m})

\* line 78: sorted(c_set)
RECURSIVE sorted(_)
sorted(C) ==
    IF C = {} THEN <<>>
    ELSE LET m == CHOOSE x \in C : \A y \in C \ {x} : CandidateLess(x, y)
         IN <<m>> \o sorted(C \ {m})

\* tuple(sorted(c))
RECURSIVE sorted_tuple(_)
sorted_tuple(c) ==
    IF c = <<>> THEN <<>>
    ELSE LET r == sorted_tuple(Tail(c))
             k == Cardinality({i \in 1..Len(r) : r[i] < Head(c)})
         IN SubSeq(r, 1, k) \o <<Head(c)>> \o SubSeq(r, k + 1, Len(r))

\* c1 + c2[-1:0:-1]: the end of c2 is kept
close_ring_bad(c1, c2) == c1 \o Reverse(SubSeq(c2, 2, Len(c2)))

\* c1 + c2[-2:0:-1]
close_ring(c1, c2) == c1 \o Reverse(SubSeq(c2, 2, Len(c2) - 1))

\* the ring is counted and stored although its key is in c_sssr
accept_ring_bad(acc, c, n) ==
    LET new == [c_sssr |-> Append(acc.c_sssr, [ck |-> sorted_tuple(c), c |-> c]),
                n_ringidx |-> acc.n_ringidx + 1, returned |-> FALSE]
    IN [new EXCEPT !.returned = (new.n_ringidx = n)]

\* lines 85-90 and 95-100: store the ring under its key, count it, return
\* when the count is n_sssr
accept_ring(acc, c, n) ==
    LET ck == sorted_tuple(c)
        new == IF \E i \in 1..Len(acc.c_sssr) : acc.c_sssr[i].ck = ck
               THEN acc
               ELSE [acc EXCEPT !.c_sssr = Append(@, [ck |-> ck, c |-> c]),
                                !.n_ringidx = @ + 1]
    IN [new EXCEPT !.returned = (new.n_ringidx = n)]

\* the (c1, c2) the loop of lines 82 or 92 goes through
ring_pairs(cand) ==
    IF cand.c_num % 2 = 1
    THEN [i \in 1..Len(cand.p2) |-> <<cand.p1[1], cand.p2[i]>>]
    ELSE [i \in 1..(Len(cand.p1) - 1) |-> <<cand.p1[i], cand.p1[i + 1]>>]

\* the loops of lines 78-100 from pair k of candidate 1 of cands on
RECURSIVE collect(_, _, _, _)
collect(cands, k, acc, n) ==
    IF acc.returned \/ cands = <<>> THEN acc
    ELSE LET prs == ring_pairs(Head(cands))
         IN IF k > Len(prs) THEN collect(Tail(cands), 1, acc, n)
            ELSE LET c1 == prs[k][1]
                     c2 == prs[k][2]
                 IN IF Cardinality(Range(c1) \cap Range(c2)) = 2
                    THEN collect(cands, k + 1,
                                 accept_ring(acc, close_ring(c1, c2), n), n)
                    ELSE collect(cands, k + 1, acc, n)

\* lines 63-100: list(c_sssr.values()) at the return, None at the end
rings(P1, P2, n) ==
    LET acc == collect(sorted(c_set(P1, P2)), 1,
                       [c_sssr |-> <<>>, n_ringidx |-> 0, returned |-> FALSE],
                       n)
    IN IF acc.returned
       THEN List([i \in 1..Len(acc.c_sssr) |-> acc.c_sssr[i].c])
       ELSE None

SssrFrame == UNCHANGED <<containerVars, searchVars, cmpVars, patchVars, cloneVars, prepareVars, marksVars, stereoVars, sdfVars, mrvVars>>

\* lines 38-43
FindSssrStart ==
    /\ sssr_pc = "start"
    /\ IF n_sssr(g) = 0
       THEN sssr_pc' = "done" /\ sssr' = None
       ELSE sssr_pc' = "paths" /\ sssr' = sssr
    /\ UNCHANGED <<g, tie, pid1, pid2>>
    /\ SssrFrame

\* lines 45-61
FindSssrPaths ==
    /\ sssr_pc = "paths"
    /\ IF \E ij \in combinations2(g) : NoPath(g, ij)
       THEN sssr_pc' = "raised" /\ UNCHANGED <<pid1, pid2>>
       ELSE /\ sssr_pc' = "rings"
            /\ pid1' = [ij \in combinations2(g) |-> PairPaths(g, ij, tie).p1]
            /\ pid2' = [ij \in combinations2(g) |-> PairPaths(g, ij, tie).p2]
    /\ UNCHANGED <<g, tie, sssr>>
    /\ SssrFrame

\* lines 63-100
FindSssrRings ==
    /\ sssr_pc = "rings"
    /\ sssr' = rings(pid1, pid2, n_sssr(g))
    /\ sssr_pc' = "done"
    /\ UNCHANGED <<g, tie, pid1, pid2>>
    /\ SssrFrame

(***************************************************************************)
(* The graphs find_sssr is called with: every graph of at most MaxNodes    *)
(* nodes, every labelling of a ring of at most MaxRing nodes, and two      *)
(* rings of at most MaxRing nodes each that share one edge.                *)
(***************************************************************************)
Iota(n) == [i \in 1..n |-> i]

AllGraphs ==
    UNION {{[nodes |-> Iota(n), edges |-> E] :
            E \in SUBSET ({{i, j} : i, j \in 1..n} \ {{i} : i \in 1..n})} :
           n \in 0..MaxNodes}

PathEdges(s) == {{s[i], s[i + 1]} : i \in 1..(Len(s) - 1)}

CycleEdges(s) == PathEdges(s) \cup {{s[Len(s)], s[1]}}

CycleGraphs ==
    UNION {{[nodes |-> Iota(n), edges |-> CycleEdges(s)] :
            s \in {x \in [1..n -> 1..n] : Range(x) = 1..n}} :
           n \in 3..MaxRing}

\* ring 1..a, and a ring of b nodes over its edge {r, r % a + 1}
Fused(a, b, r, d) ==
    LET new == [i \in 1..(b - 2) |-> a + i]
    IN [nodes |-> Iota(a + b - 2),
        edges |-> CycleEdges(Iota(a)) \cup
                  PathEdges(<<r>> \o (IF d THEN new ELSE Reverse(new))
                            \o <<(r % a) + 1>>)]

FusedGraphs ==
    UNION {{Fused(a, b, r, d) : b \in 3..MaxRing, r \in 1..a, d \in BOOLEAN} :
           a \in 3..MaxRing}

SssrInit ==
    /\ g \in AllGraphs \cup CycleGraphs \cup FusedGraphs
    /\ tie \in {"asc", "desc"}
    /\ sssr_pc = "start"
    /\ pid1 = <<>>
    /\ pid2 = <<>>
    /\ sssr = None
    /\ ContainerIdle
    /\ SearchIdle
    /\ CmpIdle
    /\ PatchIdle
    /\ CloneIdle
    /\ PrepareIdle
    /\ MarksIdle
    /\ StereoIdle
    /\ SdfIdle
    /\ MrvIdle

SssrNext == FindSssrStart \/ FindSssrPaths \/ FindSssrRings

SpecSssr == SssrInit /\ [][SssrNext]_vars

(***************************************************************************)
(* The comparator's specification: one call of __list_eq.                  *)
(***************************************************************************)
\* the values of an attribute: absent, a number, a list of numbers
MaxList == 2

AttrValues == 0..2

Values ==
    {None} \cup {Scalar(x) : x \in AttrValues}
           \cup {List(s) : s \in UNION {[1..k -> AttrValues] : k \in 0..MaxList}}

CmpFrame == UNCHANGED <<containerVars, sssrVars, searchVars, patchVars, cloneVars, prepareVars, marksVars, stereoVars, sdfVars, mrvVars>>

CmpInit ==
    /\ cmp_a \in Values
    /\ cmp_b \in Values
    /\ cmp_pc = "call"
    /\ cmp_ret = FALSE
    /\ ContainerIdle
    /\ SssrIdle
    /\ SearchIdle
    /\ PatchIdle
    /\ CloneIdle
    /\ PrepareIdle
    /\ MarksIdle
    /\ StereoIdle
    /\ SdfIdle
    /\ MrvIdle

\* line 63: the matcher calls the comparator with the target's datum and
\* the pattern's
ListEq ==
    /\ cmp_pc = "call"
    /\ cmp_ret' = generic_node_match(<<"s_bond">>, [s_bond |-> cmp_a],
                                     [s_bond |-> cmp_b])
    /\ cmp_pc' = "return"
    /\ UNCHANGED <<cmp_a, cmp_b>>
    /\ CmpFrame

CmpNext == ListEq

SpecListEq == CmpInit /\ [][CmpNext]_vars

(***************************************************************************)
(* The searcher's specification: one run of the generator that             *)
(* get_template_searcher returns, on one target.                           *)
(***************************************************************************)
SearchFrame == UNCHANGED <<containerVars, sssrVars, cmpVars, patchVars, cloneVars, prepareVars, marksVars, stereoVars, sdfVars, mrvVars>>

SearchInputs == <<config, templates, target, skip_intersection>>

SearchInit ==
    /\ config \in Configs
    /\ templates \in TemplateLists
    /\ target \in Targets
    /\ skip_intersection \in BOOLEAN
    /\ search_pc = "start"
    /\ ti = 0
    /\ pending = {}
    /\ found = {}
    /\ match = NoMatch
    /\ yielded = {}
    /\ nyield = 0
    /\ ContainerIdle
    /\ SssrIdle
    /\ CmpIdle
    /\ PatchIdle
    /\ CloneIdle
    /\ PrepareIdle
    /\ MarksIdle
    /\ StereoIdle
    /\ SdfIdle
    /\ MrvIdle

\* lines 94-95: the first next() enters the generator
Searcher ==
    /\ search_pc = "start"
    /\ search_pc' = "templates"
    /\ found' = {}
    /\ UNCHANGED <<SearchInputs, ti, pending, match, yielded, nyield>>
    /\ SearchFrame

\* lines 97-98: the next template and its matcher
SearcherTemplate ==
    /\ search_pc = "templates"
    /\ pending = {}
    /\ ti < Len(templates)
    /\ ti' = ti + 1
    /\ pending' = subgraph_isomorphisms(config, target, templates[ti + 1].pattern)
    /\ UNCHANGED <<SearchInputs, search_pc, found, match, yielded, nyield>>
    /\ SearchFrame

\* lines 99-103: the matcher gives an isomorphism that is passed over
SearcherSkip ==
    /\ search_pc = "templates"
    /\ \E j \in pending :
          /\ skip_filter(skip_intersection, found, DOMAIN j)
          /\ pending' = remaining(pending, j)
    /\ UNCHANGED <<SearchInputs, search_pc, ti, found, match, yielded, nyield>>
    /\ SearchFrame

\* lines 99-107: the matcher gives an isomorphism that is yielded
SearcherYield ==
    /\ search_pc = "templates"
    /\ \E j \in pending :
          /\ ~skip_filter(skip_intersection, found, DOMAIN j)
          /\ pending' = remaining(pending, j)
          /\ found' = IF skip_intersection THEN found \cup DOMAIN j ELSE found
          /\ \E p \in match_patches(target, templates[ti], j) :
                match' = MatchContainer(j, p, templates[ti].meta)
          /\ yielded' = yielded \cup {[t |-> ti, mapping |-> j]}
          /\ nyield' = nyield + 1
    /\ UNCHANGED <<SearchInputs, search_pc, ti>>
    /\ SearchFrame

\* the templates are exhausted: the generator ends
SearcherStop ==
    /\ search_pc = "templates"
    /\ pending = {}
    /\ ti = Len(templates)
    /\ search_pc' = "done"
    /\ UNCHANGED <<SearchInputs, ti, pending, found, match, yielded, nyield>>
    /\ SearchFrame

SearchNext ==
    \/ Searcher
    \/ SearcherTemplate
    \/ SearcherSkip
    \/ SearcherYield
    \/ SearcherStop

SpecSearcher == SearchInit /\ [][SearchNext]_vars

(***************************************************************************)
(* The patcher's specification: one call of patcher.                       *)
(***************************************************************************)
PatchFrame == UNCHANGED <<containerVars, sssrVars, searchVars, cmpVars, cloneVars, prepareVars, marksVars, stereoVars, sdfVars, mrvVars>>

PatchInit ==
    /\ pt_structure \in PatchTargets
    /\ pt_patch \in Patches(pt_structure)
    /\ pt_pc = "call"
    /\ pt_exc = "none"
    /\ pt_out = NoGraph
    /\ ContainerIdle
    /\ SssrIdle
    /\ SearchIdle
    /\ CmpIdle
    /\ CloneIdle
    /\ PrepareIdle
    /\ MarksIdle
    /\ StereoIdle
    /\ SdfIdle
    /\ MrvIdle

\* lines 281-308
Patcher ==
    /\ pt_pc = "call"
    /\ pt_pc' = "done"
    /\ IF patcher_error(pt_structure, pt_patch)
       THEN pt_exc' = "KeyError" /\ pt_out' = pt_out
       ELSE pt_exc' = "none" /\ pt_out' = patcher(pt_structure, pt_patch)
    /\ UNCHANGED <<pt_structure, pt_patch>>
    /\ PatchFrame

PatchNext == Patcher

SpecPatcher == PatchInit /\ [][PatchNext]_vars

(***************************************************************************)
(* The specification of clone_subgraphs: one call on a graph, step by     *)
(* step.                                                                   *)
(***************************************************************************)
CloneFrame == UNCHANGED <<containerVars, sssrVars, searchVars, cmpVars, patchVars, prepareVars, marksVars, stereoVars, sdfVars, mrvVars>>

CloneInit ==
    /\ cl_g \in CloneGraphs
    /\ cl_g0 = cl_g
    /\ cl_pc = "check"
    /\ cl_exc = "none"
    /\ cl_split = NoSplit
    /\ cl_groups = NoGroups
    /\ cl_work = NoWork
    /\ cl_ret = NoReturn
    /\ ContainerIdle
    /\ SssrIdle
    /\ SearchIdle
    /\ CmpIdle
    /\ PatchIdle
    /\ PrepareIdle
    /\ MarksIdle
    /\ StereoIdle
    /\ SdfIdle
    /\ MrvIdle

\* lines 158-165
CloneCheck ==
    /\ cl_pc = "check"
    /\ IF is_cgr(cl_g)
       THEN cl_pc' = "split" /\ cl_exc' = cl_exc
       ELSE cl_pc' = "done" /\ cl_exc' = "InvalidData"
    /\ UNCHANGED <<cl_g, cl_g0, cl_split, cl_groups, cl_work, cl_ret>>
    /\ CloneFrame

\* line 168
CloneSplit ==
    /\ cl_pc = "split"
    /\ \E st \in split_graph(cl_g) :
          /\ cl_g' = input_after_split(cl_g, st.g)
          /\ cl_split' = st
          /\ cl_exc' = st.exc
          /\ cl_pc' = IF st.exc = "none" THEN "classify" ELSE "done"
    /\ UNCHANGED <<cl_g0, cl_groups, cl_work, cl_ret>>
    /\ CloneFrame

\* lines 169-186
CloneClassify ==
    /\ cl_pc = "classify"
    /\ cl_groups' \in classify(cl_split.components, cl_split.lost_bonds)
    /\ cl_pc' = "match"
    /\ UNCHANGED <<cl_g, cl_g0, cl_exc, cl_split, cl_work, cl_ret>>
    /\ CloneFrame

\* lines 189-201
CloneMatch ==
    /\ cl_pc = "match"
    /\ cl_work' \in clone_all(CloneConfig,
                              {[tmp |-> cl_g, r_group_clones |-> <<>>,
                                tmp_is_g |-> TRUE, exc |-> "none"]},
                              cl_groups.newcomponents, cl_groups.r_group,
                              cl_split.term_atoms)
    /\ cl_pc' = "attach"
    /\ UNCHANGED <<cl_g, cl_g0, cl_exc, cl_split, cl_groups, cl_ret>>
    /\ CloneFrame

\* lines 205-212; what is done to tmp is done to g while they are one
\* object
CloneAttach ==
    /\ cl_pc = "attach"
    /\ \E st \in attach_all({cl_work}, cl_groups.x_group,
                            lost_map(cl_split.lost_bonds),
                            cl_work.r_group_clones) :
          LET work == IF st.exc = "none" /\ st.r_group_clones # <<>>
                      THEN [st EXCEPT
                               !.tmp.meta = meta_update(@, cl_g.meta)]
                      ELSE st
          IN /\ cl_work' = work
             /\ cl_g' = IF work.tmp_is_g THEN work.tmp ELSE cl_g
             /\ cl_exc' = st.exc
             /\ cl_pc' = IF st.exc = "none" THEN "return" ELSE "done"
    /\ UNCHANGED <<cl_g0, cl_split, cl_groups, cl_ret>>
    /\ CloneFrame

\* line 214
CloneReturn ==
    /\ cl_pc = "return"
    /\ cl_ret' = returned(cl_work.tmp, cl_work.tmp_is_g)
    /\ cl_pc' = "done"
    /\ UNCHANGED <<cl_g, cl_g0, cl_exc, cl_split, cl_groups, cl_work>>
    /\ CloneFrame

CloneNext ==
    \/ CloneCheck
    \/ CloneSplit
    \/ CloneClassify
    \/ CloneMatch
    \/ CloneAttach
    \/ CloneReturn

SpecClone == CloneInit /\ [][CloneNext]_vars

(***************************************************************************)
(* The specification of prepare_templates: one call, template by          *)
(* template.                                                               *)
(***************************************************************************)
PrepareFrame == UNCHANGED <<containerVars, sssrVars, searchVars, cmpVars, patchVars, cloneVars, marksVars, stereoVars, sdfVars, mrvVars>>

PrepareInit ==
    /\ pr_raw \in RawTemplateLists
    /\ pr_i = 1
    /\ pr_templates = <<>>
    /\ pr_exc = "none"
    /\ pr_ret = <<>>
    /\ pr_pc = "loop"
    /\ ContainerIdle
    /\ SssrIdle
    /\ SearchIdle
    /\ CmpIdle
    /\ PatchIdle
    /\ CloneIdle
    /\ MarksIdle
    /\ StereoIdle
    /\ SdfIdle
    /\ MrvIdle

\* lines 237-278: one turn of the loop
PrepareTemplate ==
    /\ pr_pc = "loop"
    /\ pr_i <= Len(pr_raw)
    /\ \E r \in prepare_template(pr_raw[pr_i]) :
          IF r.exc = "none"
          THEN /\ pr_templates' = Append(pr_templates, r.template)
               /\ pr_i' = pr_i + 1
               /\ UNCHANGED <<pr_exc, pr_pc>>
          ELSE /\ pr_exc' = r.exc
               /\ pr_pc' = "done"
               /\ UNCHANGED <<pr_templates, pr_i>>
    /\ UNCHANGED <<pr_raw, pr_ret>>
    /\ PrepareFrame

\* line 279
PrepareReturn ==
    /\ pr_pc = "loop"
    /\ pr_i > Len(pr_raw)
    /\ pr_ret' = pr_templates
    /\ pr_pc' = "done"
    /\ UNCHANGED <<pr_raw, pr_i, pr_templates, pr_exc>>
    /\ PrepareFrame

PrepareNext ==
    \/ PrepareTemplate
    \/ PrepareReturn

SpecPrepare == PrepareInit /\ [][PrepareNext]_vars

(***************************************************************************)
(* Claims about the container.                                             *)
(***************************************************************************)
\* every identifier in the graph is a positive integer
PositiveIds == \A n \in DOMAIN nodes : n \in Nat /\ n > 0

\* no add_atom call took the identifier of an atom of the graph: every
\* call that returned added one atom
UniqueIds == Cardinality(DOMAIN nodes) = added

\* a step that is an add_atom call with a _map of the graph raises
\* InvalidData and adds no atom
CollidingMapRaises ==
    \/ outcome'.exc = "InvalidData" /\ nodes' = nodes
    \/ \A a \in AtomArgs, map \in MapArgs :
          ~(map # None /\ map.v[1] \in DOMAIN nodes /\ add_atom(a, map))

\* C1: after any sequence of add_atom calls every atom identifier is a
\* positive integer and no two atoms share one, and a call whose _map is
\* already in the graph raises InvalidData and adds no atom.
C1_IdentifiersPositiveUnique ==
    [](PositiveIds /\ UniqueIds) /\ [][CollidingMapRaises]_vars

\* every edge has a reagent-side or a product-side order
EdgesHaveOrder ==
    \A e \in DOMAIN edges : edges[e].s_bond # None \/ edges[e].p_bond # None

\* a step that is an add_bond call with both marks absent raises
\* InvalidData and creates no edge
EmptyBondRaises ==
    \/ outcome'.exc = "InvalidData" /\ edges' = edges
    \/ \A atom1, atom2 \in DOMAIN nodes \cup {MissingAtom},
          ignore \in BOOLEAN :
            ~(atom1 # atom2 /\ add_bond(atom1, atom2, None, None, ignore))

\* C2: after any sequence of add_atom and add_bond calls every edge has a
\* non-absent s_bond or p_bond, and add_bond called with both s_mark and
\* p_mark absent raises InvalidData and creates no edge.
C2_EdgesHaveOrder == []EdgesHaveOrder /\ [][EmptyBondRaises]_vars

\* add_bond has refused an empty bond between two atoms of the graph, one of
\* them added with a radical
C2_Witness ==
    /\ outcome = Raised("InvalidData", "empty bonds not allowed")
    /\ Cardinality(DOMAIN nodes) = 2
    /\ \E n \in DOMAIN nodes : nodes[n].s_radical # None

\* the value of an argument: the one given, or the default when omitted
Given(arg, default) == IF arg = None THEN default ELSE arg.v[1]

\* the product-side charge and coordinates of an atom added with the
\* arguments a
ChargeAndCoordinatesDefault(a, atom) ==
    /\ atom.p_charge = Given(a.p_charge, a.s_charge)
    /\ atom.p_x = Given(a.p_x, a.s_x)
    /\ atom.p_y = Given(a.p_y, a.s_y)
    /\ atom.p_z = Given(a.p_z, a.s_z)

\* a step that is an add_atom call that returns stores an atom for which
\* P holds
AddedAtomHas(P(_, _)) ==
    \/ outcome'.exc # "none"
    \/ \A a \in AtomArgs, map \in MapArgs :
          add_atom(a, map) => P(a, nodes'[outcome'.ret.v[1]])

RadicalDefaults(a, atom) ==
    /\ ChargeAndCoordinatesDefault(a, atom)
    /\ a.p_radical = None => atom.p_radical = a.s_radical

RadicalStaysAbsent(a, atom) ==
    /\ ChargeAndCoordinatesDefault(a, atom)
    /\ a.p_radical = None => atom.p_radical = None

\* C20 as stated: the atom an add_atom call stores has, for every
\* product-side value the call omits, the reagent-side value of the call:
\* charge, radical and coordinates.
C20_ProductDefaultsToReagent == [][AddedAtomHas(RadicalDefaults)]_vars

\* C20, amended: the atom an add_atom call stores has, for the product
\* charge and each product coordinate the call omits, the reagent-side
\* value of the call; an omitted product radical is not defaulted, the
\* atom has no product radical.
C20_ChargeAndCoordinatesDefault == [][AddedAtomHas(RadicalStaysAbsent)]_vars

\* an atom added with a reagent radical, the product charge and two product
\* coordinates given, one product coordinate and the product radical
\* omitted
C20_Witness ==
    \E n \in DOMAIN nodes :
        /\ nodes[n].s_radical = Scalar(2)
        /\ nodes[n].p_radical = None
        /\ nodes[n].s_charge = 1 /\ nodes[n].p_charge = 0
        /\ nodes[n].s_y = 2 /\ nodes[n].p_y = 2
        /\ nodes[n].p_x = 4

\* C27: a call of add_atom or add_bond that raises leaves the atoms, the
\* bonds and their attributes as they were before the call.
C27_RaiseChangesNothing ==
    [][outcome'.exc # "none" => nodes' = nodes /\ edges' = edges]_vars

\* a call has raised on a graph that has atoms and a bond
C27_Witness ==
    /\ outcome.exc = "InvalidData"
    /\ Cardinality(DOMAIN nodes) >= 2
    /\ edges # <<>>

(***************************************************************************)
(* Claims about find_sssr.                                                 *)
(***************************************************************************)
\* the nodes a walk from the nodes of S reaches
RECURSIVE Reach(_, _)
Reach(G, S) ==
    LET T == S \cup UNION {Adj(G, u) : u \in S}
    IN IF T = S THEN S ELSE Reach(G, T)

Connected(G) ==
    G.nodes # <<>> /\ Reach(G, {G.nodes[1]}) = Range(G.nodes)

IsTree(G) == Connected(G) /\ Cardinality(G.edges) = Len(G.nodes) - 1

IsCycle(G) ==
    /\ Len(G.nodes) >= 3
    /\ Connected(G)
    /\ \A u \in Range(G.nodes) : Cardinality(Adj(G, u)) = 2

\* a ring and one more edge between two of its nodes: two rings that share
\* that edge
IsFused(G) ==
    \E e \in G.edges : IsCycle([G EXCEPT !.edges = @ \ {e}])

\* consecutive atoms bonded, the last bonded to the first, no atom repeated
SimpleCycle(G, c) ==
    /\ Len(c) >= 3
    /\ Cardinality(Range(c)) = Len(c)
    /\ \A i \in 1..Len(c) : {c[i], c[(i % Len(c)) + 1]} \in G.edges

Returns == sssr_pc = "done"

\* C3: for every connected acyclic graph (edge count = node count - 1)
\* find_sssr returns an empty result: it returns None at lines 38-40, once
\* the ring count is known, and neither enumerates paths nor raises.
C3_TreeHasNoRings ==
    (IsTree(g) /\ sssr_pc # "start") => (Returns /\ sssr = None)

\* find_sssr has returned for a tree of three or more nodes
C3_Witness == Returns /\ IsTree(g) /\ Len(g.nodes) >= 3 /\ sssr = None

\* C4: for every graph that is a single cycle of n >= 3 atoms find_sssr
\* returns exactly one ring, which holds all n atoms, each once.
C4_CycleIsOneRing ==
    (IsCycle(g) /\ sssr_pc \in {"done", "raised"}) =>
        /\ Returns
        /\ sssr.tag = "List"
        /\ Len(sssr.v) = 1
        /\ Len(sssr.v[1]) = Len(g.nodes)
        /\ Range(sssr.v[1]) = Range(g.nodes)

\* find_sssr has returned the ring of a cycle 1-3-2-4 of four atoms, whose
\* opposite atoms have two shortest paths
C4_Witness ==
    /\ Returns /\ IsCycle(g) /\ g.edges = CycleEdges(<<1, 3, 2, 4>>)
    /\ sssr.tag = "List" /\ Len(sssr.v[1]) = 4

\* C5: for every graph made of two rings fused on one shared edge
\* find_sssr returns exactly two rings, each a simple cycle of the graph,
\* and the two have different atom sets.
C5_FusedIsTwoRings ==
    (IsFused(g) /\ sssr_pc \in {"done", "raised"}) =>
        /\ Returns
        /\ n_sssr(g) = 2
        /\ sssr.tag = "List"
        /\ Len(sssr.v) = 2
        /\ \A i \in 1..2 : SimpleCycle(g, sssr.v[i])
        /\ Range(sssr.v[1]) # Range(sssr.v[2])

\* find_sssr has returned for two fused rings of four atoms each
C5_Witness ==
    /\ Returns /\ IsFused(g) /\ Len(g.nodes) = 6 /\ sssr.tag = "List"
    /\ Len(sssr.v[1]) = 4 /\ Len(sssr.v[2]) = 4

\* C6: whenever the target ring count is non-positive, negative included,
\* find_sssr returns an empty result and neither raises nor starts the
\* path enumeration.
C6_NonPositiveIsEmpty ==
    (n_sssr(g) <= 0 /\ sssr_pc \notin {"idle", "start"}) =>
        (Returns /\ sssr = None)

(***************************************************************************)
(* Claims about the comparator and the searcher.                           *)
(***************************************************************************)
\* the target atoms of a yielded match
MatchAtoms(y) == DOMAIN y.mapping

\* every isomorphism of every template of the list, with its template
AllMatches ==
    UNION {{[t |-> i, mapping |-> j] :
            j \in subgraph_isomorphisms(config, target, templates[i].pattern)} :
           i \in 1..Len(templates)}

\* C7: with skip_intersection enabled, at any point of the run no two of
\* the matches yielded so far share a target atom, no match was yielded
\* twice, and the atoms claimed are those of the yielded matches only: a
\* match that was passed over claimed none.
C7_YieldedAreDisjoint ==
    skip_intersection =>
        /\ \A y1, y2 \in yielded :
              y1 # y2 => MatchAtoms(y1) \cap MatchAtoms(y2) = {}
        /\ nyield = Cardinality(yielded)
        /\ found = UNION {MatchAtoms(y) : y \in yielded}

\* a finished run that yielded two matches and passed over a third
C7_Witness ==
    /\ skip_intersection
    /\ search_pc = "done"
    /\ nyield >= 2
    /\ AllMatches \ yielded # {}

\* C8, the matches: with skip_intersection disabled no match is yielded
\* twice, and when the run ends the matches yielded are the isomorphisms of
\* every template's pattern in the target, each one once.
OnePerIsomorphism ==
    ~skip_intersection =>
        /\ nyield = Cardinality(yielded)
        /\ yielded \subseteq AllMatches
        /\ search_pc = "done" => yielded = AllMatches

\* C8, the order: a match that is yielded is of the same template as, or
\* of a later template than, every match yielded before it.
TemplateOrder ==
    ~skip_intersection =>
        \A y \in yielded, z \in yielded' \ yielded : y.t <= z.t

\* C8: with skip_intersection disabled the searcher yields exactly one
\* Match for each isomorphism of each template, in the order of the
\* templates.
C8_OnePerIsomorphismInOrder == []OnePerIsomorphism /\ [][TemplateOrder]_vars

\* a finished run that yielded overlapping matches of two templates
C8_Witness ==
    /\ ~skip_intersection
    /\ search_pc = "done"
    /\ \E y1, y2 \in yielded :
          y1.t < y2.t /\ MatchAtoms(y1) \cap MatchAtoms(y2) # {}

\* what the comparator is to return: true when b is unset, whether a is a
\* member of b when b is a list, whether a equals b otherwise
Compared(a, b) ==
    CASE b.tag = "None" -> TRUE
      [] b.tag = "List" -> \E i \in 1..Len(b.v) : a = Scalar(b.v[i])
      [] OTHER -> a = b

\* C9: for a target value a and a pattern value b the comparator returns
\* true when b is unset, (a is a member of b) when b is a list, and
\* (a equals b) otherwise.
C9_ListEq == cmp_pc = "return" => (cmp_ret <=> Compared(cmp_a, cmp_b))

\* the comparator found the target's value in the pattern's list
C9_Witness ==
    /\ cmp_pc = "return"
    /\ cmp_b.tag = "List"
    /\ cmp_a.tag = "Val"
    /\ cmp_ret

Injective(f) == \A x, y \in DOMAIN f : x # y => f[x] # f[y]

\* the template of the Match yielded last
MatchTemplate ==
    CHOOSE x \in Range(templates) : x.meta = match.meta

\* C10 as stated: the mapping of a yielded Match is injective, its keys
\* are atoms of the template's pattern and its values atoms of the target,
\* and the remapped patch has, for every atom the patch shares with the
\* pattern, the target atom it was matched to.
C10_PatternToTarget ==
    match # NoMatch =>
        /\ Injective(match.mapping)
        /\ DOMAIN match.mapping \subseteq DOMAIN MatchTemplate.pattern.nodes
        /\ Range(match.mapping) \subseteq DOMAIN target.nodes
        /\ \A p \in DOMAIN match.mapping \cap DOMAIN MatchTemplate.patch.nodes :
              match.mapping[p] \in DOMAIN match.patch.nodes

\* C10, amended: the mapping of a yielded Match is injective, its keys are
\* atoms of the target and its values the atoms of the template's pattern,
\* and every atom the patch shares with the pattern has, in the remapped
\* patch, the identifier of the target atom it was matched to.
C10_TargetToPattern ==
    match # NoMatch =>
        /\ Injective(match.mapping)
        /\ DOMAIN match.mapping \subseteq DOMAIN target.nodes
        /\ Range(match.mapping) = DOMAIN MatchTemplate.pattern.nodes
        /\ \A a \in DOMAIN match.mapping :
              match.mapping[a] \in DOMAIN MatchTemplate.patch.nodes =>
                  /\ a \in DOMAIN match.patch.nodes
                  /\ match.patch.nodes[a]
                         = MatchTemplate.patch.nodes[match.mapping[a]]

\* a Match of the two-atom template on atoms 2 and 3 of a three-atom
\* target; the atom the patch adds is numbered 4
C10_Witness ==
    /\ match.meta = "two"
    /\ DOMAIN target.nodes = {1, 2, 3}
    /\ match.mapping = (2 :> TemplateAtom(2)) @@ (3 :> TemplateAtom(1))
    /\ DOMAIN match.patch.nodes = {2, 3, 4}

(***************************************************************************)
(* Claims about the patcher.                                               *)
(***************************************************************************)
\* the patch has the target's atoms and bonds with the target's values
IdentityPatch ==
    /\ pt_patch.nodes = pt_structure.nodes
    /\ pt_patch.edges = pt_structure.edges

\* C11: patcher applied with a patch that has the atoms and the bonds of
\* the target, with the target's attribute values, returns a graph with
\* the nodes, the edges and the attribute values of the target.
C11_IdentityPatchChangesNothing ==
    (pt_pc = "done" /\ IdentityPatch) =>
        /\ pt_exc = "none"
        /\ pt_out.nodes = pt_structure.nodes
        /\ pt_out.edges = pt_structure.edges

\* the value an attribute of the patch is to give: the entry of the dict
\* at the target's value, or the patch's value itself
Imposed(y, current, x) ==
    IF y.tag = "Dict" THEN Scalar(DictGet(y, current[x].v[1])) ELSE y

\* the attributes the patcher takes from a patch for this kind of target
PatchedNodeMarks ==
    IF pt_structure.cgr
    THEN {"s_charge", "s_hyb", "s_neighbors", "s_stereo", "element", "map",
          "mark", "p_charge", "p_hyb", "p_neighbors", "p_stereo"}
    ELSE {"s_charge", "s_hyb", "s_neighbors", "s_stereo", "element", "map",
          "mark"}

PatchedBondMarks ==
    IF pt_structure.cgr
    THEN {"s_bond", "s_stereo", "p_bond", "p_stereo"}
    ELSE {"s_bond", "s_stereo"}

\* C12 as stated: in the graph patcher returns, every attribute that an
\* atom or a bond of the patch carries has the patch's value, a
\* conditional one the entry of its dict at the target's value of that
\* attribute.
C12_PatchWins ==
    (pt_pc = "done" /\ pt_exc = "none") =>
        /\ \A i \in DOMAIN pt_patch.nodes, x \in PatchNodeAttrs :
              pt_patch.nodes[i][x] # Absent =>
                  pt_out.nodes[i][x]
                      = Imposed(pt_patch.nodes[i][x], NodeOf(pt_structure, i), x)
        /\ \A e \in DOMAIN pt_patch.edges, x \in PatchEdgeAttrs :
              pt_patch.edges[e][x] # Absent =>
                  pt_out.edges[e][x]
                      = Imposed(pt_patch.edges[e][x], EdgeOf(pt_structure, e), x)

\* what does hold: in the graph patcher returns, every attribute of the
\* patcher's node marks (bond marks) that an atom (a bond) of the patch
\* carries has the patch's value, a conditional one the entry of its dict
\* at the target's value of that attribute; the other attributes of the
\* patch are not copied: an atom keeps the target's value of them and a
\* bond of the patch has none.
PatchWinsOnMarks ==
    (pt_pc = "done" /\ pt_exc = "none") =>
        /\ \A i \in DOMAIN pt_patch.nodes, x \in PatchNodeAttrs :
              IF x \in PatchedNodeMarks /\ pt_patch.nodes[i][x] # Absent
              THEN pt_out.nodes[i][x]
                      = Imposed(pt_patch.nodes[i][x], NodeOf(pt_structure, i), x)
              ELSE pt_out.nodes[i][x]
                      = (IF i \in DOMAIN pt_structure.nodes
                         THEN pt_structure.nodes[i][x] ELSE Absent)
        /\ \A e \in DOMAIN pt_patch.edges, x \in PatchEdgeAttrs :
              IF x \in PatchedBondMarks /\ pt_patch.edges[e][x] # Absent
              THEN pt_out.edges[e][x]
                      = Imposed(pt_patch.edges[e][x], EdgeOf(pt_structure, e), x)
              ELSE pt_out.edges[e][x] = Absent

\* a patch of conditional charges and a conditional bond was applied to
\* a dual-state target with a charged atom and a double bond
PatchWinsOnMarksSeen ==
    /\ pt_pc = "done"
    /\ pt_exc = "none"
    /\ pt_structure.cgr
    /\ \E i \in DOMAIN pt_patch.nodes :
          /\ pt_patch.nodes[i].s_charge.tag = "Dict"
          /\ pt_structure.nodes[i].s_charge = Scalar(1)
          /\ pt_out.nodes[i].s_charge = Scalar(0)
          /\ pt_out.nodes[i].isotope = Scalar(13)
    /\ \E e \in DOMAIN pt_patch.edges :
          /\ pt_patch.edges[e].s_bond.tag = "Dict"
          /\ pt_structure.edges[e].s_bond = Scalar(2)
          /\ pt_out.edges[e].s_bond = Scalar(1)

(***************************************************************************)
(* Claims about clone_subgraphs.                                           *)
(***************************************************************************)
\* the graph of the call is a CGR whose bonds all have the same order on
\* the reagent and on the product side
Balanced ==
    /\ cl_g0.cgr
    /\ \A e \in DOMAIN cl_g0.edges :
          cl_g0.edges[e].s_bond = cl_g0.edges[e].p_bond

\* C13: for a CGR whose bonds all have the same order on both sides,
\* clone_subgraphs finds no lost bonds and no terminal atoms, sorts nothing
\* into X-groups or R-groups, clones nothing, raises nothing, and returns
\* a graph with the atoms, bonds and attributes of the input.
C13_BalancedIsReturnedAsIs ==
    Balanced =>
        /\ cl_exc = "none"
        /\ cl_split.lost_bonds = <<>>
        /\ cl_split.term_atoms = <<>>
        /\ cl_groups.x_group = <<>>
        /\ cl_groups.r_group = <<>>
        /\ cl_work.r_group_clones = <<>>
        /\ cl_pc = "done" => cl_ret.graph = cl_g0

C13_Witness ==
    /\ Balanced
    /\ cl_pc = "done"
    /\ Cardinality(DOMAIN cl_g0.edges) >= 3
    /\ cl_split.components # <<>>
    /\ cl_ret.graph = cl_g0

\* C14: at every point of a call of clone_subgraphs the graph it was
\* called with has the atoms, bonds, attributes and metadata it had at the
\* call, with or without cloning, and the graph returned is another object
\* than the input.
C14_InputIsNotChanged ==
    /\ cl_g = cl_g0
    /\ cl_pc = "done" /\ cl_exc = "none" => ~cl_ret.is_input

C14_Witness ==
    /\ cl_pc = "done"
    /\ cl_exc = "none"
    /\ cl_work.r_group_clones # <<>>
    /\ cl_split.g # cl_g0
    /\ cl_ret.graph # cl_g0
    /\ cl_g = cl_g0

\* C15: called with a graph that is not a CGRContainer, clone_subgraphs
\* ends with InvalidData, and nothing has been split, sorted, matched or
\* returned.
C15_MoleculeIsInvalidData ==
    ~cl_g0.cgr /\ cl_pc \notin {"idle", "check"} =>
        /\ cl_pc = "done"
        /\ cl_exc = "InvalidData"
        /\ cl_split = NoSplit
        /\ cl_groups = NoGroups
        /\ cl_work = NoWork
        /\ cl_ret = NoReturn

C15_Witness ==
    /\ ~cl_g0.cgr
    /\ cl_g0.edges # <<>>
    /\ cl_pc = "done"
    /\ cl_exc = "InvalidData"

\* the substitution paths of the graph of the call, each as (reagent-only
\* neighbour, centre, product-only neighbour)
SubstitutionPaths ==
    UNION {Range(ps) :
           ps \in get_substitution_paths(cl_g0, Ascending(DOMAIN cl_g0.nodes))}

\* the components sorted into the X-groups and into the R-groups
XGroups == Range(cl_groups.x_group)

RGroups == {r.j : r \in Range(cl_groups.r_group)}

\* C16: once __split_graph is over, for every substitution path both bonds
\* of the centre are cut and the pair (reagent-only neighbour,
\* product-only neighbour) is a recorded lost bond; once the components
\* are sorted, the X-groups are the components with a product-only
\* neighbour of a path and the R-groups those with a reagent-only
\* neighbour.
C16_PathsAreCutAndRecorded ==
    cl_g0.cgr /\ cl_pc \notin {"idle", "check", "split"} =>
        /\ \A p \in SubstitutionPaths :
              /\ {p[2], p[1]} \notin DOMAIN cl_split.g.edges
              /\ {p[2], p[3]} \notin DOMAIN cl_split.g.edges
              /\ <<p[1], p[3]>> \in Range(cl_split.lost_bonds)
        /\ cl_pc \in {"match", "attach", "return"} =>
              /\ XGroups = {i \in Range(cl_split.components) :
                               \E p \in SubstitutionPaths :
                                   p[3] \in DOMAIN i.nodes}
              /\ RGroups = {i \in Range(cl_split.components) :
                               \E p \in SubstitutionPaths :
                                   p[1] \in DOMAIN i.nodes}

(***************************************************************************)
(* Claims about prepare_templates.                                         *)
(***************************************************************************)
\* the raw templates of the call, by their place in the list
RawPlaces == {i \in DOMAIN pr_raw : ~is_template(pr_raw[i])}

\* a list among the values of an attribute dictionary
HasList(attr) == \E j \in Keys(attr) : attr[j].tag = "List"

\* the raw template has an atom or a bond that only its products have,
\* with a list-valued attribute
VariableNew(template) ==
    LET reagents == template.reagents
        products == template.products
    IN \/ \E n \in new_atoms(reagents, products) : HasList(products.nodes[n])
       \/ \E e \in DOMAIN products.edges \ DOMAIN reagents.edges :
              HasList(products.edges[e])

\* C17: a call of prepare_templates with a raw template that has a
\* patch-only atom or a patch-only bond with a list-valued attribute ends
\* with InvalidTemplate and returns nothing.
C17_VariableNewIsInvalid ==
    pr_pc = "done" /\ (\E i \in RawPlaces : VariableNew(pr_raw[i])) =>
        pr_exc = "InvalidTemplate" /\ pr_ret = <<>>

\* d is the mapping of the values of the list r, in their order, to the
\* values of the list p at the same places
PairedByPosition(r, p, d) ==
    /\ d.tag = "Dict"
    /\ r.tag = "List"
    /\ Len(r.v) = Len(p.v)
    /\ DictLen(d) = Len(r.v)
    /\ \A i \in 1..Len(r.v) :
          d.v[i] = r.v[i] /\ d.v[DictLen(d) + i] = p.v[i]

\* C18: in a template built by prepare_templates, for every atom and bond
\* that pattern and patch share, each attribute that is a list in the raw
\* patch is a conditional mapping with one entry per value of the pattern's
\* list of that attribute, the i-th key being the i-th value of the
\* pattern's list and the i-th value the i-th value of the patch's list.
C18_ListsBecomeMappings ==
    \A i \in RawPlaces \cap DOMAIN pr_templates :
        LET reagents == pr_raw[i].reagents
            products == pr_raw[i].products
            patch == pr_templates[i].patch
        IN /\ \A n \in common(reagents, products) :
                 \A j \in Keys(products.nodes[n]) :
                     products.nodes[n][j].tag = "List" =>
                         PairedByPosition(reagents.nodes[n][j],
                                          products.nodes[n][j],
                                          patch.nodes[n + TemplateOffset][j])
           /\ \A e \in DOMAIN products.edges \cap DOMAIN reagents.edges :
                 \A j \in Keys(products.edges[e]) :
                     products.edges[e][j].tag = "List" =>
                         PairedByPosition(reagents.edges[e][j],
                                          products.edges[e][j],
                                          patch.edges[{n + TemplateOffset :
                                                       n \in e}][j])

\* C19: every template built from a raw one has the raw pattern's and the
\* raw patch's atoms under their numbers plus 1000, so that all numbers
\* are at least 1000, an atom of both graphs has one number in both, and
\* the numbers of the patch-only atoms are not numbers of the pattern; a
\* CGRTemplate in the list is in the result as it was given.
C19_IdentifiersAreOffsetOnce ==
    \A i \in DOMAIN pr_templates :
        IF is_template(pr_raw[i]) THEN pr_templates[i] = pr_raw[i]
        ELSE LET reagents == DOMAIN pr_raw[i].reagents.nodes
                 products == DOMAIN pr_raw[i].products.nodes
                 pattern == DOMAIN pr_templates[i].pattern.nodes
                 patch == DOMAIN pr_templates[i].patch.nodes
             IN /\ \A n \in pattern \cup patch : n >= TemplateOffset
                /\ pattern = {n + TemplateOffset : n \in reagents}
                /\ patch = {n + TemplateOffset : n \in products}
                /\ {n + TemplateOffset : n \in products \ reagents}
                       \cap pattern = {}

C19_Witness ==
    /\ pr_pc = "done"
    /\ pr_exc = "none"
    /\ Len(pr_ret) = 2
    /\ is_template(pr_raw[1])
    /\ ~is_template(pr_raw[2])
    /\ DOMAIN pr_ret[2].pattern.nodes \cap DOMAIN pr_ret[2].patch.nodes # {}
    /\ DOMAIN pr_ret[2].patch.nodes \ DOMAIN pr_ret[2].pattern.nodes # {}

\* the atoms that target and patch share
CommonAtoms == DOMAIN pt_patch.nodes \cap DOMAIN pt_structure.nodes

\* C25: in the graph patcher returns, the bonds between two atoms that
\* target and patch share are the bonds the patch has between them, and
\* every bond of the target with an atom outside the patch is there with
\* the attributes it has in the target.
C25_CommonEdgesAreThePatchs ==
    pt_pc = "done" /\ pt_exc = "none" =>
        /\ {e \in DOMAIN pt_out.edges : e \subseteq CommonAtoms}
               = {e \in DOMAIN pt_patch.edges : e \subseteq CommonAtoms}
        /\ \A e \in DOMAIN pt_structure.edges :
              ~(e \subseteq DOMAIN pt_patch.nodes) =>
                  /\ e \in DOMAIN pt_out.edges
                  /\ pt_out.edges[e] = pt_structure.edges[e]

\* a target bond between common atoms that the patch lacks is gone
C25_Witness ==
    /\ pt_pc = "done"
    /\ pt_exc = "none"
    /\ \E e \in DOMAIN pt_structure.edges :
          /\ e \subseteq CommonAtoms
          /\ e \notin DOMAIN pt_patch.edges
          /\ e \notin DOMAIN pt_out.edges

\* C28: on a CGR whose bonds all have a dual-state order __split_graph
\* raises nothing, and once it is over every reagent-only and every
\* product-only bond of the centre of a substitution path is cut.
C28_SplitCompletes ==
    cl_g0.cgr =>
        /\ cl_exc = "none"
        /\ cl_pc \notin {"idle", "check", "split"} =>
              \A p \in SubstitutionPaths :
                  \A e \in DOMAIN cl_g0.edges :
                      /\ p[2] \in e
                      /\ cl_g0.edges[e].sp_bond
                             \in {Pair(Scalar(1), None), Pair(None, Scalar(1))}
                      => e \notin DOMAIN cl_split.g.edges

\* C24: for a connected graph with n = edges - nodes + 1 > 0, find_sssr
\* returns a list of exactly n rings, each a simple cycle of the graph, no
\* two on the same atoms, and in the order of their candidates' scores (a
\* ring has as many atoms as its candidate's score), so never a longer ring
\* before a shorter one.
C24_ExactlyNRings ==
    Connected(g) /\ n_sssr(g) > 0 /\ sssr_pc \in {"done", "raised"} =>
        /\ Returns
        /\ sssr.tag = "List"
        /\ Len(sssr.v) = n_sssr(g)
        /\ \A i \in 1..Len(sssr.v) : SimpleCycle(g, sssr.v[i])
        /\ \A i, j \in 1..Len(sssr.v) :
              i < j => /\ Range(sssr.v[i]) # Range(sssr.v[j])
                       /\ Len(sssr.v[i]) <= Len(sssr.v[j])

C24_Witness ==
    /\ sssr_pc = "done"
    /\ Connected(g)
    /\ n_sssr(g) = 2
    /\ sssr.tag = "List"
    /\ Len(sssr.v) = 2
    /\ Len(sssr.v[1]) < Len(sssr.v[2])

(***************************************************************************)
(* Query marks: reset_query_marks on a graph built by add_atom and         *)
(* add_bond.  mk_nodes[i] is the element of atom i, mk_adj[i] the          *)
(* neighbours of atom i in the order their bonds were added (the order     *)
(* g[i].items() visits them in), mk_bonds the (s_bond, p_bond) of every    *)
(* bond with 0 for None, mk_labels[i] the labels stored on atom i, mk_out  *)
(* the last call and, for reset_query_marks, the labels of its graph g.    *)
(***************************************************************************)
MaxMarkAtoms == 3

MarkElements == {"C", "H"}

\* the (s_mark, p_mark) add_bond is called with
MarkPairs == {<<1, 1>>, <<3, 0>>, <<4, 4>>}

\* lines 203-212: the label after one more bond of type b_type (0 is None)
hyb_step(hyb, b_type) ==
    IF b_type \in {1, 0} \/ hyb \in {3, 4} THEN hyb
    ELSE IF b_type = 4 THEN 4
    ELSE IF b_type = 3 \/ (b_type = 2 /\ hyb = 2) THEN 3
    ELSE IF b_type = 2 /\ hyb # 3 THEN 2
    ELSE hyb

\* lines 199-212 for one side: the bond types of the neighbours in the
\* order ord, folded from the label 1
RECURSIVE hyb_of(_, _)
hyb_of(types, hyb) ==
    IF types = <<>> THEN hyb
    ELSE hyb_of(Tail(types), hyb_step(hyb, Head(types)))

\* lines 201-202: the neighbours with a bond on the side that are not H
neighbors_of(N, B, i, ord, side) ==
    Cardinality({k \in 1..Len(ord) :
                    B[{i, ord[k]}][side] # 0 /\ N[ord[k]] # "H"})

\* lines 214-215
combined(s, p) == IF s # p THEN Pair(Scalar(s), Scalar(p)) ELSE Scalar(s)

\* lines 196-215: the labels of atom i when its neighbours are visited in
\* the order ord
query_marks(N, B, i, ord) ==
    LET s_hyb == hyb_of([k \in 1..Len(ord) |-> B[{i, ord[k]}][1]], 1)
        p_hyb == hyb_of([k \in 1..Len(ord) |-> B[{i, ord[k]}][2]], 1)
        s_n == neighbors_of(N, B, i, ord, 1)
        p_n == neighbors_of(N, B, i, ord, 2)
    IN [s_hyb |-> s_hyb, p_hyb |-> p_hyb, sp_hyb |-> combined(s_hyb, p_hyb),
        s_neighbors |-> s_n, p_neighbors |-> p_n,
        sp_neighbors |-> combined(s_n, p_n)]

\* lines 195-216: the labels of every atom of the graph
reset_labels(N, A, B) == [i \in 1..Len(N) |-> query_marks(N, B, i, A[i])]

\* MoleculeContainer.flush_cache drops what the container has cached about
\* the whole graph; the attributes of the nodes are left as they are (line
\* 216 writes the labels and line 219 flushes)
flush_cache(labels) == labels

\* lines 120-125: add_edge writes the bond attributes, the nodes keep theirs
labels_after_bond(labels, atom1, atom2) == flush_cache(labels)

MarksFrame == UNCHANGED <<containerVars, sssrVars, searchVars, cmpVars, patchVars, cloneVars, prepareVars, stereoVars, sdfVars, mrvVars>>

\* add_atom, lines 91-100: the new node has the attributes of the call
MarksAddAtom ==
    /\ Len(mk_nodes) < MaxMarkAtoms
    /\ \E element \in MarkElements :
          mk_nodes' = Append(mk_nodes, element)
    /\ mk_adj' = Append(mk_adj, <<>>)
    /\ mk_labels' = flush_cache(Append(mk_labels, NoLabels))
    /\ mk_out' = [call |-> "add_atom", labels |-> <<>>]
    /\ UNCHANGED mk_bonds
    /\ MarksFrame

\* add_bond(atom1, atom2, s_mark, p_mark, ignore=True), lines 102-125, for
\* the bonds of atom 1
MarksAddBond ==
    /\ \E atom1 \in {1}, atom2 \in 1..Len(mk_nodes), marks \in MarkPairs :
          /\ atom1 # atom2
          /\ {atom1, atom2} \notin DOMAIN mk_bonds
          /\ mk_bonds' = mk_bonds @@ ({atom1, atom2} :> marks)
          /\ mk_adj' = [mk_adj EXCEPT ![atom1] = Append(@, atom2),
                                      ![atom2] = Append(@, atom1)]
          /\ mk_labels' = labels_after_bond(mk_labels, atom1, atom2)
    /\ mk_out' = [call |-> "add_bond", labels |-> <<>>]
    /\ UNCHANGED mk_nodes
    /\ MarksFrame

\* reset_query_marks(copy), lines 187-219
ResetQueryMarks ==
    /\ mk_nodes # <<>>
    /\ \E copy \in BOOLEAN :
          LET labels == reset_labels(mk_nodes, mk_adj, mk_bonds)
          IN /\ mk_labels' = IF copy THEN mk_labels ELSE flush_cache(labels)
             /\ mk_out' = [call |-> IF copy THEN "copy" ELSE "reset",
                           labels |-> labels]
    /\ UNCHANGED <<mk_nodes, mk_adj, mk_bonds>>
    /\ MarksFrame

MarksInit ==
    /\ MarksIdle
    /\ ContainerIdle
    /\ SssrIdle
    /\ SearchIdle
    /\ CmpIdle
    /\ PatchIdle
    /\ CloneIdle
    /\ PrepareIdle
    /\ StereoIdle
    /\ SdfIdle
    /\ MrvIdle

MarksNext == MarksAddAtom \/ MarksAddBond \/ ResetQueryMarks

SpecMarks == MarksInit /\ [][MarksNext]_vars

\* the atoms joined to atom i
MarkNeighbours(i) == {j \in 1..Len(mk_nodes) : {i, j} \in DOMAIN mk_bonds}

\* C21: in any sequence of reset_query_marks, add_atom and add_bond calls,
\* the labels that can be read on an atom are labels of the current bonds of
\* the atom (for some order of its neighbours), or the atom has none: no
\* label computed before a change of the atom's bonds is still there.
C21_LabelsAreCurrent ==
    \A i \in 1..Len(mk_nodes) :
        mk_labels[i] # NoLabels =>
            \E ord \in Perms(MarkNeighbours(i)) :
                mk_labels[i] = query_marks(mk_nodes, mk_bonds, i, ord)

\* C26: the labels reset_query_marks computes for an atom are those of the
\* atom's bonds whatever the order its neighbours are visited in, and the
\* combined hybridization is the one value when the sides agree and the
\* (reagent, product) pair when they do not.
C26_HybIgnoresOrder ==
    mk_out.call \in {"reset", "copy"} =>
        \A i \in 1..Len(mk_nodes) :
            /\ \A ord \in Perms(MarkNeighbours(i)) :
                  mk_out.labels[i] = query_marks(mk_nodes, mk_bonds, i, ord)
            /\ mk_out.labels[i].sp_hyb =
                  IF mk_out.labels[i].s_hyb = mk_out.labels[i].p_hyb
                  THEN Scalar(mk_out.labels[i].s_hyb)
                  ELSE Pair(Scalar(mk_out.labels[i].s_hyb),
                            Scalar(mk_out.labels[i].p_hyb))

(***************************************************************************)
(* add_stereo(atom1, atom2, s_mark, p_mark) on a neutral carbon, atom 1:   *)
(* st_centre says which of its z coordinates are not zero, st_nb[k] is     *)
(* its k-th neighbour, atom k + 1 (element, bond orders with 0 for no      *)
(* bond on the side, z coordinates not zero), st_stereo the stereo marks   *)
(* of atom 1 (0 for none) and st_out the last call and what it raised.     *)
(***************************************************************************)
MaxStereoNeighbours == 4

Neighbour(e, s, p, sz, pz) ==
    [element |-> e, s_bond |-> s, p_bond |-> p, s_z |-> sz, p_z |-> pz]

\* the neighbours atom 1 is given; their order plays no part in add_stereo,
\* so the lists of neighbours are taken in the order of this list
NeighbourKinds ==
    <<Neighbour("C", 1, 1, FALSE, FALSE), Neighbour("H", 1, 1, FALSE, FALSE),
      Neighbour("C", 1, 0, FALSE, FALSE), Neighbour("H", 0, 1, FALSE, FALSE),
      Neighbour("C", 0, 1, FALSE, TRUE), Neighbour("C", 2, 2, FALSE, FALSE),
      Neighbour("C", 1, 1, TRUE, TRUE)>>

NeighbourLists ==
    UNION {{[i \in 1..n |-> NeighbourKinds[f[i]]] :
            f \in {h \in [1..n -> 1..Len(NeighbourKinds)] :
                      \A i \in 1..(n - 1) : h[i] <= h[i + 1]}} :
           n \in 0..MaxStereoNeighbours}

CentreKinds ==
    {[s_z |-> FALSE, p_z |-> FALSE], [s_z |-> FALSE, p_z |-> TRUE],
     [s_z |-> TRUE, p_z |-> TRUE]}

\* None is 0
StereoMarks == {1, -1, 0}

RECURSIVE SumSeq(_)
SumSeq(s) == IF s = <<>> THEN 0 ELSE Head(s) + SumSeq(Tail(s))

\* lines 137-138: the neighbours (as positions of st_nb) with a bond on the
\* side, in the order of self[atom1]
tmp(nb, side) ==
    Ascending({k \in 1..Len(nb) :
                  (IF side = "s" THEN nb[k].s_bond ELSE nb[k].p_bond) # 0})

\* the bond orders of tmp
tmp_bonds(nb, side) ==
    [i \in 1..Len(tmp(nb, side)) |->
        IF side = "s" THEN nb[tmp(nb, side)[i]].s_bond
        ELSE nb[tmp(nb, side)[i]].p_bond]

\* MoleculeContainer._get_implicit_h for a neutral carbon without radical:
\* the valence 4 less the orders of the bonds, never below 0
get_implicit_h(bonds) == IF SumSeq(bonds) < 4 THEN 4 - SumSeq(bonds) ELSE 0

\* lines 283-291
atom_implicit_h(nb) ==
    [s |-> get_implicit_h(tmp_bonds(nb, "s")),
     p |-> get_implicit_h(tmp_bonds(nb, "p"))]

\* MoleculeContainer._tetrahedron_parse: the mark is stored on the side
tetrahedron_parse(stereo, mark, label) ==
    IF label = "s" THEN [stereo EXCEPT !.s = mark] ELSE [stereo EXCEPT !.p = mark]

\* line 139: neighbors = [x for x, _ in tmp_s], used for both sides
stereo_neighbors(nb, side) == tmp(nb, "s")

\* lines 141-144 for one side
has_z(c, nb, side) ==
    LET nbrs == stereo_neighbors(nb, side)
    IN IF side = "s"
       THEN c.s_z \/ \E i \in 1..Len(nbrs) : nb[nbrs[i]].s_z
       ELSE c.p_z \/ \E i \in 1..Len(nbrs) : nb[nbrs[i]].p_z

\* lines 146-151 for one side
too_many_h(nb, side) ==
    LET nbrs == stereo_neighbors(nb, side)
        h == Cardinality({i \in 1..Len(nbrs) :
                             nb[nbrs[i]].element = "H"})
        implicit == IF side = "s" THEN atom_implicit_h(nb).s
                    ELSE atom_implicit_h(nb).p
    IN implicit > 1 \/ (implicit = 1 /\ h > 0) \/ h > 1

\* lines 155 and 162
total(nb, side) ==
    (IF side = "s" THEN atom_implicit_h(nb).s ELSE atom_implicit_h(nb).p)
        + Len(stereo_neighbors(nb, side))

\* lines 127-166: the exception and the stereo marks of atom 1 after the call
add_stereo(c, nb, stereo, atom2, s_mark, p_mark) ==
    IF s_mark \notin {1, -1} /\ p_mark \notin {1, -1}
    THEN [exc |-> "InvalidData", stereo |-> stereo]
    ELSE IF atom2 \notin 2..(Len(nb) + 1)
    THEN [exc |-> "InvalidAtom", stereo |-> stereo]
    ELSE IF stereo.s # 0 \/ stereo.p # 0
    THEN [exc |-> "InvalidStereo", stereo |-> stereo]
    ELSE IF (s_mark # 0 /\ has_z(c, nb, "s")) \/ (p_mark # 0 /\ has_z(c, nb, "p"))
    THEN [exc |-> "InvalidStereo", stereo |-> stereo]
    ELSE IF (s_mark # 0 /\ too_many_h(nb, "s"))
                \/ (p_mark # 0 /\ too_many_h(nb, "p"))
    THEN [exc |-> "InvalidStereo", stereo |-> stereo]
    ELSE LET s_done == IF s_mark # 0 /\ total(nb, "s") = 4
                       THEN tetrahedron_parse(stereo, s_mark, "s") ELSE stereo
         IN IF s_mark # 0 /\ total(nb, "s") # 4
            THEN [exc |-> "InvalidStereo", stereo |-> stereo]
            ELSE IF p_mark = 0 THEN [exc |-> "none", stereo |-> s_done]
            ELSE IF total(nb, "p") = 4
            THEN [exc |-> "none",
                  stereo |-> tetrahedron_parse(s_done, p_mark, "p")]
            ELSE [exc |-> "InvalidStereo", stereo |-> s_done]

StereoFrame == UNCHANGED <<containerVars, sssrVars, searchVars, cmpVars, patchVars, cloneVars, prepareVars, marksVars, sdfVars, mrvVars>>

AddStereo ==
    /\ \E atom2 \in {2, Len(st_nb) + 2}, s_mark, p_mark \in StereoMarks :
          LET r == add_stereo(st_centre, st_nb, st_stereo, atom2, s_mark, p_mark)
          IN /\ st_stereo' = r.stereo
             /\ st_out' = [exc |-> r.exc, s |-> s_mark, p |-> p_mark]
    /\ UNCHANGED <<st_centre, st_nb>>
    /\ StereoFrame

StereoInit ==
    /\ st_centre \in CentreKinds
    /\ st_nb \in NeighbourLists
    /\ st_stereo = [s |-> 0, p |-> 0]
    /\ st_out = NoStereoCall
    /\ ContainerIdle
    /\ SssrIdle
    /\ SearchIdle
    /\ CmpIdle
    /\ PatchIdle
    /\ CloneIdle
    /\ PrepareIdle
    /\ MarksIdle
    /\ SdfIdle
    /\ MrvIdle

StereoNext == AddStereo

SpecStereo == StereoInit /\ [][StereoNext]_vars

\* what the claim asks of a side: no z coordinate on the atom or on a
\* neighbour bonded on that side, at most one hydrogen (implicit or bonded
\* on that side), and implicit hydrogens plus neighbours bonded on that
\* side are 4
SideOk(side) ==
    LET on == tmp(st_nb, side)
        implicit == IF side = "s" THEN atom_implicit_h(st_nb).s
                    ELSE atom_implicit_h(st_nb).p
        h == Cardinality({i \in 1..Len(on) : st_nb[on[i]].element = "H"})
    IN /\ IF side = "s"
          THEN ~st_centre.s_z /\ \A i \in 1..Len(on) : ~st_nb[on[i]].s_z
          ELSE ~st_centre.p_z /\ \A i \in 1..Len(on) : ~st_nb[on[i]].p_z
       /\ implicit + h <= 1
       /\ implicit + Len(on) = 4

\* C22: atom 1 has a stereo mark on a side only if that side has no z
\* coordinate on the atom or its bonded neighbours, at most one hydrogen and
\* implicit hydrogens plus neighbours equal to 4; a call that gives a mark
\* for a side without these raises InvalidStereo (unless the marks or the
\* bond were rejected first).
C22_StereoOnlyOnTetrahedron ==
    /\ st_stereo.s # 0 => SideOk("s")
    /\ st_stereo.p # 0 => SideOk("p")
    /\ st_out.exc \notin {"InvalidData", "InvalidAtom"} =>
          /\ st_out.s # 0 /\ ~SideOk("s") => st_out.exc = "InvalidStereo"
          /\ st_out.p # 0 /\ ~SideOk("p") => st_out.exc = "InvalidStereo"

(***************************************************************************)
(* SDFread.__reader over a file of records.  A line is its kind (what it   *)
(* starts with or holds), the record it belongs to and the numbers its     *)
(* fields parse to (<<>> when int or float raises ValueError).  rd is the  *)
(* reader: the local variables of __reader, the molecules yielded so far   *)
(* and the exception that left the generator.                              *)
(***************************************************************************)
MaxRecords == 2

Line(kind, v) == [kind |-> kind, rec |-> 0, v |-> v]

Header == Line("header", <<>>)

MEnd == Line("M  END", <<>>)

Terminator == Line("$$$$", <<>>)

\* the records of a file: two well-formed ones, and one for each line that
\* fails to parse (counts not a number, no atoms, atom fields, charge code
\* outside the table, bond fields, property line)
GoodRecord ==
    <<Header, Header, Header, Line("counts", <<1, 0>>), Line("atom", <<0>>),
      MEnd, Terminator>>

GoodRecordWithData ==
    <<Header, Header, Header, Line("counts", <<1, 1>>), Line("atom", <<3>>),
      Line("bond", <<1>>), Line("prop", <<1>>), MEnd, Line(">  <", <<1>>),
      Line("data", <<1>>), Terminator>>

BadRecords ==
    {[GoodRecord EXCEPT ![4] = Line("counts", <<>>)],
     [GoodRecord EXCEPT ![4] = Line("counts", <<0, 0>>)],
     [GoodRecord EXCEPT ![5] = Line("atom", <<>>)],
     [GoodRecord EXCEPT ![5] = Line("atom", <<8>>)],
     [GoodRecordWithData EXCEPT ![6] = Line("bond", <<>>)],
     [GoodRecordWithData EXCEPT ![7] = Line("prop", <<>>)]}

Records == {GoodRecord, GoodRecordWithData} \cup BadRecords

\* the lines of the records rs, each marked with the place of its record
RECURSIVE FileOf(_, _)
FileOf(rs, k) ==
    IF rs = <<>> THEN <<>>
    ELSE [i \in 1..Len(Head(rs)) |-> [Head(rs)[i] EXCEPT !.rec = k]]
             \o FileOf(Tail(rs), k + 1)

\* the files: SDF files, and files whose last record has no $$$$ line
Files ==
    UNION {UNION {{FileOf(rs, 1), SubSeq(FileOf(rs, 1), 1, Len(FileOf(rs, 1)) - 1)} :
                  rs \in [1..k -> Records]} : k \in 1..MaxRecords}

\* _CGRrw.fromMDL: the charges of the eight charge codes of a MOL atom line
fromMDL == <<0, 3, 2, 1, 0, -1, -2, -3>>

\* line 70
new_molecule(rec) == [NoMolecule EXCEPT !.tag = "dict", !.rec = rec]

\* MOLread._get_molecule: the container of a parsed record
get_molecule(molecule) == molecule

\* lines 55-65
terminator(r, n, line) ==
    [r EXCEPT !.out = IF r.molecule # NoMolecule
                      THEN Append(@, get_molecule(r.molecule)) ELSE @,
              !.mkey = FALSE, !.im = n + 4, !.failkey = FALSE, !.mend = FALSE,
              !.molecule = NoMolecule]

\* lines 73-77, 85-88, 92-95, 106-110
fail(r) == [r EXCEPT !.failkey = TRUE, !.molecule = NoMolecule]

\* lines 67-77
counts_line(r, n, line) ==
    IF line.kind = "counts" /\ line.v # <<>> /\ line.v[1] # 0
    THEN [r EXCEPT !.atomcount = line.v[1] + n,
                   !.bondcount = line.v[2] + line.v[1] + n,
                   !.molecule = new_molecule(line.rec)]
    ELSE [fail(r) EXCEPT !.atomcount = -1, !.bondcount = -1]

\* lines 79-88; the charge code is looked up after int has parsed it, and
\* IndexError is not a ValueError
atom_line(r, line) ==
    IF line.kind # "atom" \/ line.v = <<>> THEN fail(r)
    ELSE IF line.v[1] + 1 \notin DOMAIN fromMDL
    THEN [r EXCEPT !.exc = "IndexError"]
    ELSE [r EXCEPT !.molecule.atoms = Append(@, fromMDL[line.v[1] + 1])]

\* lines 89-95
bond_line(r, line) ==
    IF line.kind # "bond" \/ line.v = <<>> THEN fail(r)
    ELSE [r EXCEPT !.molecule.bonds = Append(@, line.v[1])]

\* lines 97-99; MOLread._get_collected hands over the collected properties
m_end(r) ==
    IF r.molecule = NoMolecule THEN [r EXCEPT !.exc = "TypeError"]
    ELSE [r EXCEPT !.mend = TRUE, !.molecule.CGR_DAT = r.collected,
                   !.collected = <<>>]

\* lines 101-125; MOLread._collect raises ValueError on a property line it
\* cannot parse and keeps the others, _flush_collected drops them
property_line(r, line) ==
    IF ~r.mend
    THEN IF line.kind # "prop" \/ line.v = <<>>
         THEN [fail(r) EXCEPT !.collected = <<>>]
         ELSE [r EXCEPT !.collected = Append(@, line.v[1])]
    ELSE IF line.kind = ">  <"
    THEN IF line.v = <<>> THEN r
         ELSE [r EXCEPT !.mkey = TRUE, !.molecule.meta = <<>>]
    ELSE IF r.mkey /\ line.v # <<>>
    THEN [r EXCEPT !.molecule.meta = Append(@, line.v[1])]
    ELSE r

\* lines 52-125: one turn of the loop, line n of the file (from 0)
reader_line(r, n, line) ==
    IF r.failkey /\ line.kind # "$$$$" THEN r
    ELSE IF line.kind = "$$$$" THEN terminator(r, n, line)
    ELSE IF n = r.im THEN counts_line(r, n, line)
    ELSE IF n <= r.atomcount THEN atom_line(r, line)
    ELSE IF n <= r.bondcount THEN bond_line(r, line)
    ELSE IF line.kind = "M  END" THEN m_end(r)
    ELSE IF r.molecule # NoMolecule THEN property_line(r, line)
    ELSE r

\* lines 127-131
reader_end(r) ==
    IF r.molecule # NoMolecule
    THEN [r EXCEPT !.out = Append(@, get_molecule(r.molecule))]
    ELSE r

SdfFrame == UNCHANGED <<containerVars, sssrVars, searchVars, cmpVars, patchVars, cloneVars, prepareVars, marksVars, stereoVars, mrvVars>>

\* one turn of the for loop of line 52
ReaderLine ==
    /\ rd_pc = "loop"
    /\ rd_n < Len(rd_file)
    /\ rd' = reader_line(rd, rd_n, rd_file[rd_n + 1])
    /\ rd_n' = rd_n + 1
    /\ rd_pc' = IF rd'.exc # "none" THEN "raised" ELSE "loop"
    /\ UNCHANGED rd_file
    /\ SdfFrame

\* the file is read: lines 127-131, and the generator is over
ReaderEnd ==
    /\ rd_pc = "loop"
    /\ rd_n = Len(rd_file)
    /\ rd' = reader_end(rd)
    /\ rd_pc' = "done"
    /\ UNCHANGED <<rd_file, rd_n>>
    /\ SdfFrame

SdfInit ==
    /\ rd_file \in Files
    /\ rd_n = 0
    /\ rd = NewReader
    /\ rd_pc = "loop"
    /\ ContainerIdle
    /\ SssrIdle
    /\ SearchIdle
    /\ CmpIdle
    /\ PatchIdle
    /\ CloneIdle
    /\ PrepareIdle
    /\ MarksIdle
    /\ StereoIdle
    /\ MrvIdle

SdfNext == ReaderLine \/ ReaderEnd

SpecSdf == SdfInit /\ [][SdfNext]_vars

\* the places of the records of the file
RecordsOf(file) == {file[i].rec : i \in 1..Len(file)}

\* the lines of record k
LinesOf(file, k) == SubSeqAt(file, {i \in 1..Len(file) : file[i].rec = k})

\* record k has no line that fails to parse
WellFormed(file, k) ==
    \E rec \in {GoodRecord, GoodRecordWithData} :
        \/ LinesOf(file, k) = FileOf(<<rec>>, k)
        \/ LinesOf(file, k) = SubSeq(FileOf(<<rec>>, k), 1, Len(rec) - 1)

\* C23: when the reader is over, it has yielded one molecule for each
\* well-formed record of the file, in the order of the file, and nothing
\* for a record with a counts, atom, bond or property line that fails to
\* parse; no exception has left it.
C23_MalformedIsSkipped ==
    rd_pc \in {"done", "raised"} =>
        /\ rd.exc = "none"
        /\ [i \in 1..Len(rd.out) |-> rd.out[i].rec]
               = Ascending({k \in RecordsOf(rd_file) : WellFormed(rd_file, k)})

(***************************************************************************)
(* MRVwrite: wr_out is what has been written to the file, piece by piece   *)
(* (a document is one piece), wr_write the function self.write is bound    *)
(* to, wr_finalized the flag __finalized and wr_closed whether the file    *)
(* is closed.                                                              *)
(***************************************************************************)
\* the pieces written before the calls stop
MaxPieces == 6

\* the data of a write call: a molecule or a reaction
WriteData == {"molecule", "reaction"}

\* lines 239-272: one MDocument element
write(out, data) == Append(out, "<MDocument>" \o data \o "</MDocument>")

\* lines 234-237
init_write(out, data) == write(Append(out, "<cml>"), data)

\* lines 230-232
finalize(out) == Append(out, "</cml>")

MrvFrame == UNCHANGED <<containerVars, sssrVars, searchVars, cmpVars, patchVars, cloneVars, prepareVars, marksVars, stereoVars, sdfVars>>

\* self.write(data): __init_write the first time (line 223), __write after
\* it (line 237)
Write ==
    /\ ~wr_closed
    /\ Len(wr_out) < MaxPieces
    /\ \E data \in WriteData :
          wr_out' = IF wr_write = "__init_write" THEN init_write(wr_out, data)
                    ELSE write(wr_out, data)
    /\ wr_write' = "__write"
    /\ UNCHANGED <<wr_finalized, wr_closed>>
    /\ MrvFrame

\* finalize(), lines 230-232
Finalize ==
    /\ ~wr_closed
    /\ Len(wr_out) < MaxPieces
    /\ wr_out' = finalize(wr_out)
    /\ wr_finalized' = TRUE
    /\ UNCHANGED <<wr_write, wr_closed>>
    /\ MrvFrame

\* close(), lines 225-228; WithMixin.close closes the file
Close ==
    /\ ~wr_closed
    /\ wr_out' = IF ~wr_finalized THEN finalize(wr_out) ELSE wr_out
    /\ wr_finalized' = TRUE
    /\ wr_closed' = TRUE
    /\ UNCHANGED wr_write
    /\ MrvFrame

MrvInit ==
    /\ MrvIdle
    /\ ContainerIdle
    /\ SssrIdle
    /\ SearchIdle
    /\ CmpIdle
    /\ PatchIdle
    /\ CloneIdle
    /\ PrepareIdle
    /\ MarksIdle
    /\ StereoIdle
    /\ SdfIdle

MrvNext == Write \/ Finalize \/ Close

SpecMrv == MrvInit /\ [][MrvNext]_vars

\* the places of the piece x in what was written
PlacesOf(x) == {i \in 1..Len(wr_out) : wr_out[i] = x}

\* C29: once the writer is closed, whatever write and finalize calls came
\* before, the output has '<cml>' exactly once and before every other piece,
\* and '</cml>' exactly once and after every other piece.
C29_OneCmlElement ==
    wr_closed =>
        /\ PlacesOf("<cml>") = {1}
        /\ PlacesOf("</cml>") = {Len(wr_out)}

====
